---- MODULE Spec2Model ----
(***************************************************************************)
(* Call-history reconciliation of the calling feature (callDisposition):   *)
(* the status transition engine (transitionCallHistory and its per-mode    *)
(* status functions, transitionTimestamp), the reconciler built on it      *)
(* (updateLocalCallHistory, updateLocalAdhocCallHistory, saveCallHistory,  *)
(* updateRemoteCallHistory) and the sync events it sends to linked devices.*)
(***************************************************************************)
EXTENDS Integers, Sequences, FiniteSets, TLC

\* ------------------------------------------------------------------ bounds
\* Timestamps are epoch milliseconds; the model draws them from 1..MaxTimestamp.
MaxTimestamp == 2
\* The outbound sync queue holds at most MaxSyncJobs unsent jobs.
MaxSyncJobs == 1
\* Two linked devices reconcile at most MaxLocalEvents local events between them.
MaxLocalEvents == 3
\* At most MaxJobs operations are started on the conversation of SpecJobs.
MaxJobs == 2

\* ------------------------------------------------------------ enumerations
\* A nullable value is the string "null" for identifiers and statuses, and a
\* sequence of length 0 or 1 for records (None, Some(r)).
NullId == "null"
None == <<>>
Some(r) == <<r>>

CallMode == [Direct |-> "Direct", Group |-> "Group", Adhoc |-> "Adhoc"]

CallType == [Audio |-> "Audio", Video |-> "Video", Group |-> "Group", Adhoc |-> "Adhoc"]

CallDirection == [Incoming |-> "Incoming", Outgoing |-> "Outgoing"]

LocalCallEvent ==
    [Started |-> "LocalStarted", Ringing |-> "LocalRinging",
     Accepted |-> "LocalAccepted", Declined |-> "LocalDeclined",
     Hangup |-> "LocalHangup", RemoteHangup |-> "LocalRemoteHangup",
     Missed |-> "LocalMissed", Delete |-> "LocalDelete"]

RemoteCallEvent ==
    [Accepted |-> "Accepted", NotAccepted |-> "NotAccepted", Delete |-> "Delete"]

CallStatusValue ==
    [Pending |-> "Pending", Accepted |-> "Accepted", Missed |-> "Missed",
     Declined |-> "Declined", Deleted |-> "Deleted",
     GenericGroupCall |-> "GenericGroupCall", OutgoingRing |-> "OutgoingRing",
     Ringing |-> "Ringing", Joined |-> "Joined", JoinedAdhoc |-> "JoinedAdhoc"]

DirectCallStatus ==
    [Pending |-> CallStatusValue.Pending, Accepted |-> CallStatusValue.Accepted,
     Missed |-> CallStatusValue.Missed, Declined |-> CallStatusValue.Declined,
     Deleted |-> CallStatusValue.Deleted]

GroupCallStatus ==
    [GenericGroupCall |-> CallStatusValue.GenericGroupCall,
     OutgoingRing |-> CallStatusValue.OutgoingRing,
     Ringing |-> CallStatusValue.Ringing, Joined |-> CallStatusValue.Joined,
     Accepted |-> CallStatusValue.Accepted, Missed |-> CallStatusValue.Missed,
     Declined |-> CallStatusValue.Declined, Deleted |-> CallStatusValue.Deleted]

AdhocCallStatus ==
    [Pending |-> CallStatusValue.Pending, Joined |-> CallStatusValue.JoinedAdhoc,
     Deleted |-> CallStatusValue.Deleted]

Range(f) == {f[x] : x \in DOMAIN f}

LocalEvents == Range(LocalCallEvent)
RemoteEvents == Range(RemoteCallEvent)
AllEvents == LocalEvents \cup RemoteEvents

\* The statuses a record of each mode can hold.
StatusesOfMode(mode) ==
    CASE mode = CallMode.Direct -> Range(DirectCallStatus)
      [] mode = CallMode.Group -> Range(GroupCallStatus)
      [] mode = CallMode.Adhoc -> Range(AdhocCallStatus)

\* The mode implied by a call type.
ModeOfType(type) ==
    IF type = CallType.Group THEN CallMode.Group
    ELSE IF type = CallType.Adhoc THEN CallMode.Adhoc
    ELSE CallMode.Direct

\* ------------------------------------------------------------- exceptions
\* A function that throws returns one of these markers instead of a value.
MissingCaseError == "!missingCaseError"
GroupNotAcceptedError == "!Group calls shouldn't send NotAccepted"
IsThrown(v) == v \in {MissingCaseError, GroupNotAcceptedError}

\* ------------------------------------------- the status transition engine
\* Mutant of Max: the smaller of the two.
MaxIsMin(a, b) == IF a <= b THEN a ELSE b

\* Mutant of Max: the event's timestamp, whatever the record's.
MaxTakesEvent(a, b) == a

\* Math.max
Max(a, b) == IF a >= b THEN a ELSE b

\* Mutant of DirectStatusOnNotAccepted: the direct call takes a status only a
\* group call has.
DirectStatusOnNotAcceptedRings(status) == GroupCallStatus.Ringing

\* Mutant of DirectStatusOnNotAccepted: a Declined call becomes Missed.
DirectStatusOnNotAcceptedForgetsDeclined(status) == DirectCallStatus.Missed

\* The remote NotAccepted branch of transitionDirectCallStatus.
DirectStatusOnNotAccepted(status) ==
    IF status = DirectCallStatus.Declined
    THEN DirectCallStatus.Declined
    ELSE DirectCallStatus.Missed

transitionDirectCallStatus(status, callEvent, direction) ==
    IF \/ callEvent = RemoteCallEvent.Delete
       \/ callEvent = LocalCallEvent.Delete
       \/ status = DirectCallStatus.Deleted
    THEN DirectCallStatus.Deleted
    ELSE IF \/ callEvent = RemoteCallEvent.Accepted
            \/ callEvent = LocalCallEvent.Accepted
    THEN DirectCallStatus.Accepted
    ELSE IF status = DirectCallStatus.Accepted
    THEN status
    ELSE IF callEvent = RemoteCallEvent.NotAccepted
    THEN DirectStatusOnNotAccepted(status)
    ELSE IF callEvent = LocalCallEvent.Missed
    THEN DirectCallStatus.Missed
    ELSE IF callEvent = LocalCallEvent.Declined
    THEN DirectCallStatus.Declined
    ELSE IF callEvent = LocalCallEvent.Hangup
    THEN (IF direction = CallDirection.Incoming
          THEN DirectCallStatus.Declined
          ELSE DirectCallStatus.Missed)
    ELSE IF callEvent = LocalCallEvent.RemoteHangup
    THEN (IF direction = CallDirection.Incoming
          THEN DirectCallStatus.Missed
          ELSE DirectCallStatus.Declined)
    ELSE IF \/ callEvent = LocalCallEvent.Started
            \/ callEvent = LocalCallEvent.Ringing
    THEN DirectCallStatus.Pending
    ELSE MissingCaseError

\* Mutant of GroupStatusOnEvent: an Accepted event makes a GenericGroupCall
\* record Accepted instead of Joined.
GroupStatusOnEventAcceptsGeneric(status, event, direction) ==
    IF event = RemoteCallEvent.Accepted \/ event = LocalCallEvent.Accepted
    THEN (CASE status = NullId -> GroupCallStatus.Joined
            [] status \in {GroupCallStatus.Ringing, GroupCallStatus.Missed,
                           GroupCallStatus.Declined} -> GroupCallStatus.Accepted
            [] status = GroupCallStatus.GenericGroupCall -> GroupCallStatus.Accepted
            [] status \in {GroupCallStatus.Joined, GroupCallStatus.OutgoingRing} -> status
            [] OTHER -> MissingCaseError)
    ELSE IF event = LocalCallEvent.Started
    THEN GroupCallStatus.GenericGroupCall
    ELSE IF event = LocalCallEvent.Ringing
    THEN GroupCallStatus.Ringing
    ELSE IF event = LocalCallEvent.Missed
    THEN GroupCallStatus.Missed
    ELSE IF event = LocalCallEvent.Declined
    THEN GroupCallStatus.Declined
    ELSE IF event = LocalCallEvent.Hangup
    THEN (IF direction = CallDirection.Incoming
          THEN GroupCallStatus.Declined
          ELSE GroupCallStatus.Missed)
    ELSE IF event = LocalCallEvent.RemoteHangup
    THEN (IF direction = CallDirection.Incoming
          THEN GroupCallStatus.Missed
          ELSE GroupCallStatus.Declined)
    ELSE MissingCaseError

\* Mutant of GroupStatusOnEvent: a Joined record stays Joined whatever the event.
GroupStatusOnEventKeepsJoined(status, event, direction) ==
    IF status = GroupCallStatus.Joined THEN status
    ELSE IF event = RemoteCallEvent.Accepted \/ event = LocalCallEvent.Accepted
    THEN (CASE status = NullId -> GroupCallStatus.Joined
            [] status \in {GroupCallStatus.Ringing, GroupCallStatus.Missed,
                           GroupCallStatus.Declined} -> GroupCallStatus.Accepted
            [] status = GroupCallStatus.GenericGroupCall -> GroupCallStatus.Joined
            [] status \in {GroupCallStatus.Joined, GroupCallStatus.OutgoingRing} -> status
            [] OTHER -> MissingCaseError)
    ELSE IF event = LocalCallEvent.Started
    THEN GroupCallStatus.GenericGroupCall
    ELSE IF event = LocalCallEvent.Ringing
    THEN GroupCallStatus.Ringing
    ELSE IF event = LocalCallEvent.Missed
    THEN GroupCallStatus.Missed
    ELSE IF event = LocalCallEvent.Declined
    THEN GroupCallStatus.Declined
    ELSE IF event = LocalCallEvent.Hangup
    THEN (IF direction = CallDirection.Incoming
          THEN GroupCallStatus.Declined
          ELSE GroupCallStatus.Missed)
    ELSE IF event = LocalCallEvent.RemoteHangup
    THEN (IF direction = CallDirection.Incoming
          THEN GroupCallStatus.Missed
          ELSE GroupCallStatus.Declined)
    ELSE MissingCaseError

\* Mutant of GroupStatusOnEvent: a local Ringing of an outgoing call gives
\* OutgoingRing.
GroupStatusOnEventRingsOut(status, event, direction) ==
    IF event = RemoteCallEvent.Accepted \/ event = LocalCallEvent.Accepted
    THEN (CASE status = NullId -> GroupCallStatus.Joined
            [] status \in {GroupCallStatus.Ringing, GroupCallStatus.Missed,
                           GroupCallStatus.Declined} -> GroupCallStatus.Accepted
            [] status = GroupCallStatus.GenericGroupCall -> GroupCallStatus.Joined
            [] status \in {GroupCallStatus.Joined, GroupCallStatus.OutgoingRing} -> status
            [] OTHER -> MissingCaseError)
    ELSE IF event = LocalCallEvent.Started
    THEN GroupCallStatus.GenericGroupCall
    ELSE IF event = LocalCallEvent.Ringing
    THEN (IF direction = CallDirection.Outgoing
          THEN GroupCallStatus.OutgoingRing
          ELSE GroupCallStatus.Ringing)
    ELSE IF event = LocalCallEvent.Missed
    THEN GroupCallStatus.Missed
    ELSE IF event = LocalCallEvent.Declined
    THEN GroupCallStatus.Declined
    ELSE IF event = LocalCallEvent.Hangup
    THEN (IF direction = CallDirection.Incoming
          THEN GroupCallStatus.Declined
          ELSE GroupCallStatus.Missed)
    ELSE IF event = LocalCallEvent.RemoteHangup
    THEN (IF direction = CallDirection.Incoming
          THEN GroupCallStatus.Missed
          ELSE GroupCallStatus.Declined)
    ELSE MissingCaseError

\* transitionGroupCallStatus after its delete, sticky-Accepted and NotAccepted
\* checks: the table of the remaining events.
GroupStatusOnEvent(status, event, direction) ==
    IF event = RemoteCallEvent.Accepted \/ event = LocalCallEvent.Accepted
    THEN (CASE status = NullId -> GroupCallStatus.Joined
            [] status \in {GroupCallStatus.Ringing, GroupCallStatus.Missed,
                           GroupCallStatus.Declined} -> GroupCallStatus.Accepted
            [] status = GroupCallStatus.GenericGroupCall -> GroupCallStatus.Joined
            [] status \in {GroupCallStatus.Joined, GroupCallStatus.OutgoingRing} -> status
            [] OTHER -> MissingCaseError)
    ELSE IF event = LocalCallEvent.Started
    THEN GroupCallStatus.GenericGroupCall
    ELSE IF event = LocalCallEvent.Ringing
    THEN GroupCallStatus.Ringing
    ELSE IF event = LocalCallEvent.Missed
    THEN GroupCallStatus.Missed
    ELSE IF event = LocalCallEvent.Declined
    THEN GroupCallStatus.Declined
    ELSE IF event = LocalCallEvent.Hangup
    THEN (IF direction = CallDirection.Incoming
          THEN GroupCallStatus.Declined
          ELSE GroupCallStatus.Missed)
    ELSE IF event = LocalCallEvent.RemoteHangup
    THEN (IF direction = CallDirection.Incoming
          THEN GroupCallStatus.Missed
          ELSE GroupCallStatus.Declined)
    ELSE MissingCaseError

\* Mutant of transitionGroupCallStatus: NotAccepted is refused before a Deleted
\* record is kept Deleted.
transitionGroupCallStatusRefusesDeleted(status, event, direction) ==
    IF event = RemoteCallEvent.Delete \/ event = LocalCallEvent.Delete
    THEN GroupCallStatus.Deleted
    ELSE IF event = RemoteCallEvent.NotAccepted /\ status # GroupCallStatus.Accepted
    THEN GroupNotAcceptedError
    ELSE IF status = GroupCallStatus.Deleted
    THEN GroupCallStatus.Deleted
    ELSE IF status = GroupCallStatus.Accepted
    THEN status
    ELSE GroupStatusOnEvent(status, event, direction)

\* Mutant of transitionGroupCallStatus: Accepted is not kept.
transitionGroupCallStatusNotSticky(status, event, direction) ==
    IF \/ event = RemoteCallEvent.Delete
       \/ event = LocalCallEvent.Delete
       \/ status = GroupCallStatus.Deleted
    THEN GroupCallStatus.Deleted
    ELSE IF event = RemoteCallEvent.NotAccepted
    THEN GroupNotAcceptedError
    ELSE GroupStatusOnEvent(status, event, direction)

\* Mutant of transitionGroupCallStatus: NotAccepted is refused before the
\* Accepted status is kept.
transitionGroupCallStatusRefusesFirst(status, event, direction) ==
    IF \/ event = RemoteCallEvent.Delete
       \/ event = LocalCallEvent.Delete
       \/ status = GroupCallStatus.Deleted
    THEN GroupCallStatus.Deleted
    ELSE IF event = RemoteCallEvent.NotAccepted
    THEN GroupNotAcceptedError
    ELSE IF status = GroupCallStatus.Accepted
    THEN status
    ELSE GroupStatusOnEvent(status, event, direction)

transitionGroupCallStatus(status, event, direction) ==
    IF \/ event = RemoteCallEvent.Delete
       \/ event = LocalCallEvent.Delete
       \/ status = GroupCallStatus.Deleted
    THEN GroupCallStatus.Deleted
    ELSE IF status = GroupCallStatus.Accepted
    THEN status
    ELSE IF event = RemoteCallEvent.NotAccepted
    THEN GroupNotAcceptedError
    ELSE GroupStatusOnEvent(status, event, direction)

\* Mutant of transitionAdhocCallStatus: the events an adhoc call does not
\* support (remote NotAccepted, local Ringing) are not handled.
transitionAdhocCallStatusNotExhaustive(status, callEvent, direction) ==
    IF \/ callEvent = RemoteCallEvent.Delete
       \/ callEvent = LocalCallEvent.Delete
       \/ status = AdhocCallStatus.Deleted
    THEN AdhocCallStatus.Deleted
    ELSE IF \/ callEvent = RemoteCallEvent.Accepted
            \/ callEvent = LocalCallEvent.Accepted
    THEN AdhocCallStatus.Joined
    ELSE IF status = AdhocCallStatus.Joined
    THEN status
    ELSE IF callEvent \in {LocalCallEvent.Missed,
                           LocalCallEvent.Declined, LocalCallEvent.Hangup,
                           LocalCallEvent.RemoteHangup, LocalCallEvent.Started}
    THEN AdhocCallStatus.Pending
    ELSE MissingCaseError

\* Mutant of transitionAdhocCallStatus: a Deleted record is not kept Deleted.
transitionAdhocCallStatusUndeletes(status, callEvent, direction) ==
    IF \/ callEvent = RemoteCallEvent.Delete
       \/ callEvent = LocalCallEvent.Delete
    THEN AdhocCallStatus.Deleted
    ELSE IF \/ callEvent = RemoteCallEvent.Accepted
            \/ callEvent = LocalCallEvent.Accepted
    THEN AdhocCallStatus.Joined
    ELSE IF status = AdhocCallStatus.Joined
    THEN status
    ELSE IF callEvent \in {RemoteCallEvent.NotAccepted, LocalCallEvent.Missed,
                           LocalCallEvent.Declined, LocalCallEvent.Hangup,
                           LocalCallEvent.RemoteHangup, LocalCallEvent.Started,
                           LocalCallEvent.Ringing}
    THEN AdhocCallStatus.Pending
    ELSE MissingCaseError

transitionAdhocCallStatus(status, callEvent, direction) ==
    IF \/ callEvent = RemoteCallEvent.Delete
       \/ callEvent = LocalCallEvent.Delete
       \/ status = AdhocCallStatus.Deleted
    THEN AdhocCallStatus.Deleted
    ELSE IF \/ callEvent = RemoteCallEvent.Accepted
            \/ callEvent = LocalCallEvent.Accepted
    THEN AdhocCallStatus.Joined
    ELSE IF status = AdhocCallStatus.Joined
    THEN status
    ELSE IF callEvent \in {RemoteCallEvent.NotAccepted, LocalCallEvent.Missed,
                           LocalCallEvent.Declined, LocalCallEvent.Hangup,
                           LocalCallEvent.RemoteHangup, LocalCallEvent.Started,
                           LocalCallEvent.Ringing}
    THEN AdhocCallStatus.Pending
    ELSE MissingCaseError

\* Mutant of transitionTimestamp: a local Accepted also moves the timestamp of an
\* accepted record.
transitionTimestampOnLocalAccepted(callHistory, callEvent) ==
    LET latestTimestamp ==
            Max(callEvent.timestamp,
                IF callHistory = None THEN 0 ELSE callHistory[1].timestamp)
    IN  IF callHistory = None
        THEN callEvent.timestamp
        ELSE LET prev == callHistory[1] IN
             IF prev.status \in {DirectCallStatus.Deleted, GroupCallStatus.Deleted,
                                 AdhocCallStatus.Deleted}
             THEN prev.timestamp
             ELSE IF prev.status \in {DirectCallStatus.Accepted, GroupCallStatus.Accepted,
                                      GroupCallStatus.Joined, AdhocCallStatus.Joined}
             THEN (IF callEvent.event \in {RemoteCallEvent.Accepted, LocalCallEvent.Accepted}
                   THEN latestTimestamp
                   ELSE prev.timestamp)
             ELSE IF prev.status \in {DirectCallStatus.Declined, GroupCallStatus.Declined}
             THEN (IF callEvent.event = RemoteCallEvent.NotAccepted
                   THEN latestTimestamp
                   ELSE prev.timestamp)
             ELSE IF prev.status \in {DirectCallStatus.Pending,
                                      GroupCallStatus.GenericGroupCall,
                                      GroupCallStatus.OutgoingRing,
                                      GroupCallStatus.Ringing,
                                      DirectCallStatus.Missed, GroupCallStatus.Missed,
                                      AdhocCallStatus.Pending}
             THEN latestTimestamp
             ELSE -1

\* Mutant of transitionTimestamp: an Accepted event also moves the timestamp of a
\* Declined record.
transitionTimestampOnAccepting(callHistory, callEvent) ==
    LET latestTimestamp ==
            Max(callEvent.timestamp,
                IF callHistory = None THEN 0 ELSE callHistory[1].timestamp)
    IN  IF callHistory = None
        THEN callEvent.timestamp
        ELSE LET prev == callHistory[1] IN
             IF prev.status \in {DirectCallStatus.Deleted, GroupCallStatus.Deleted,
                                 AdhocCallStatus.Deleted}
             THEN prev.timestamp
             ELSE IF prev.status \in {DirectCallStatus.Accepted, GroupCallStatus.Accepted,
                                      GroupCallStatus.Joined, AdhocCallStatus.Joined}
             THEN (IF callEvent.event = RemoteCallEvent.Accepted
                   THEN latestTimestamp
                   ELSE prev.timestamp)
             ELSE IF prev.status \in {DirectCallStatus.Declined, GroupCallStatus.Declined}
             THEN (IF callEvent.event \in {RemoteCallEvent.NotAccepted,
                                            RemoteCallEvent.Accepted,
                                            LocalCallEvent.Accepted}
                   THEN latestTimestamp
                   ELSE prev.timestamp)
             ELSE IF prev.status \in {DirectCallStatus.Pending,
                                      GroupCallStatus.GenericGroupCall,
                                      GroupCallStatus.OutgoingRing,
                                      GroupCallStatus.Ringing,
                                      DirectCallStatus.Missed, GroupCallStatus.Missed,
                                      AdhocCallStatus.Pending}
             THEN latestTimestamp
             ELSE -1

\* callHistory is None or Some(record); the result is a timestamp, or -1 when
\* missingCaseError is thrown for a status no branch names.
transitionTimestamp(callHistory, callEvent) ==
    LET latestTimestamp ==
            Max(callEvent.timestamp,
                IF callHistory = None THEN 0 ELSE callHistory[1].timestamp)
    IN  IF callHistory = None
        THEN callEvent.timestamp
        ELSE LET prev == callHistory[1] IN
             IF prev.status \in {DirectCallStatus.Deleted, GroupCallStatus.Deleted,
                                 AdhocCallStatus.Deleted}
             THEN prev.timestamp
             ELSE IF prev.status \in {DirectCallStatus.Accepted, GroupCallStatus.Accepted,
                                      GroupCallStatus.Joined, AdhocCallStatus.Joined}
             THEN (IF callEvent.event = RemoteCallEvent.Accepted
                   THEN latestTimestamp
                   ELSE prev.timestamp)
             ELSE IF prev.status \in {DirectCallStatus.Declined, GroupCallStatus.Declined}
             THEN (IF callEvent.event = RemoteCallEvent.NotAccepted
                   THEN latestTimestamp
                   ELSE prev.timestamp)
             ELSE IF prev.status \in {DirectCallStatus.Pending,
                                      GroupCallStatus.GenericGroupCall,
                                      GroupCallStatus.OutgoingRing,
                                      GroupCallStatus.Ringing,
                                      DirectCallStatus.Missed, GroupCallStatus.Missed,
                                      AdhocCallStatus.Pending}
             THEN latestTimestamp
             ELSE -1

\* Mutant of FailedAssertion: the direction is not compared.
FailedAssertionSkipsDirection(callHistory, callEvent) ==
    IF callHistory = None THEN ""
    ELSE LET h == callHistory[1] IN
         IF h.callId # callEvent.callId THEN "callId must be same"
         ELSE IF h.peerId # callEvent.peerId THEN "peerId must be same"
         ELSE IF ~(callEvent.ringerId = NullId \/ h.ringerId = callEvent.ringerId)
         THEN "ringerId must be same if it exists"
         ELSE IF h.type # callEvent.type THEN "type must be same"
         ELSE IF h.mode # callEvent.mode THEN "mode must be same"
         ELSE ""

\* The first strictAssert of transitionCallHistory that fails, or "" if none.
FailedAssertion(callHistory, callEvent) ==
    IF callHistory = None THEN ""
    ELSE LET h == callHistory[1] IN
         IF h.callId # callEvent.callId THEN "callId must be same"
         ELSE IF h.peerId # callEvent.peerId THEN "peerId must be same"
         ELSE IF ~(callEvent.ringerId = NullId \/ h.ringerId = callEvent.ringerId)
         THEN "ringerId must be same if it exists"
         ELSE IF h.direction # callEvent.direction THEN "direction must be same"
         ELSE IF h.type # callEvent.type THEN "type must be same"
         ELSE IF h.mode # callEvent.mode THEN "mode must be same"
         ELSE ""

\* The ringerId of the record transitionCallHistory returns.
TransitionedRingerId(callHistory, callEvent) == callEvent.ringerId

Thrown(msg) == [threw |-> TRUE, error |-> msg, value |-> None]
Returned(r) == [threw |-> FALSE, error |-> "", value |-> Some(r)]

\* The result is Returned(record) or Thrown(message).
transitionCallHistory(callHistory, callEvent) ==
    LET failed == FailedAssertion(callHistory, callEvent)
        prevStatus == IF callHistory = None THEN NullId ELSE callHistory[1].status
        status ==
            IF callEvent.mode = CallMode.Direct
            THEN transitionDirectCallStatus(prevStatus, callEvent.event, callEvent.direction)
            ELSE IF callEvent.mode = CallMode.Group
            THEN transitionGroupCallStatus(prevStatus, callEvent.event, callEvent.direction)
            ELSE IF callEvent.mode = CallMode.Adhoc
            THEN transitionAdhocCallStatus(prevStatus, callEvent.event, callEvent.direction)
            ELSE MissingCaseError
        timestamp == transitionTimestamp(callHistory, callEvent)
    IN  IF failed # "" THEN Thrown(failed)
        ELSE IF IsThrown(status) THEN Thrown(status)
        ELSE IF timestamp < 0 THEN Thrown(MissingCaseError)
        ELSE Returned([callId |-> callEvent.callId,
                       peerId |-> callEvent.peerId,
                       ringerId |-> TransitionedRingerId(callHistory, callEvent),
                       mode |-> callEvent.mode,
                       type |-> callEvent.type,
                       direction |-> callEvent.direction,
                       timestamp |-> timestamp,
                       status |-> status])

\* ------------------------------------------------------- input domains
CallIds == {"c1", "c2"}
PeerIds == {"p1", "p2"}
RingerIds == {NullId, "r1", "r2"}
Timestamps == 1..MaxTimestamp

\* Every producer of events derives the mode from the type.
EventsOver(callIds, peerIds, ringerIds, events) ==
    {[callId |-> c, peerId |-> p, ringerId |-> r, mode |-> ModeOfType(t), type |-> t,
      direction |-> d, event |-> e, timestamp |-> ts] :
        c \in callIds, p \in peerIds, r \in ringerIds, t \in Range(CallType),
        d \in Range(CallDirection), e \in events, ts \in Timestamps}

HistoriesOfType(callIds, peerIds, ringerIds, t) ==
    {[callId |-> c, peerId |-> p, ringerId |-> r, mode |-> ModeOfType(t), type |-> t,
      direction |-> d, timestamp |-> ts, status |-> s] :
        c \in callIds, p \in peerIds, r \in ringerIds,
        d \in Range(CallDirection), ts \in Timestamps,
        s \in StatusesOfMode(ModeOfType(t))}

HistoriesOver(callIds, peerIds, ringerIds) ==
    UNION {HistoriesOfType(callIds, peerIds, ringerIds, t) : t \in Range(CallType)}

CallEvents == EventsOver(CallIds, PeerIds, RingerIds, AllEvents)

\* The prior records the transition engine is applied to: every status of every
\* mode, for the call (c1, p1), with and without a ringer.
PriorHistories == HistoriesOver({"c1"}, {"p1"}, {NullId, "r1"})

\* --------------------------------------------------- sync events (protos)
\* statusToProto: the wire event of a status, NullId when it has none.
statusToProto(callStatus) ==
    CASE callStatus = CallStatusValue.Accepted -> "ACCEPTED"
      [] callStatus = CallStatusValue.Declined -> "NOT_ACCEPTED"
      [] callStatus = CallStatusValue.Deleted -> "DELETE"
      [] callStatus = CallStatusValue.Missed -> NullId
      [] callStatus = CallStatusValue.Pending -> NullId
      [] callStatus = CallStatusValue.GenericGroupCall -> NullId
      [] callStatus = CallStatusValue.OutgoingRing -> NullId
      [] callStatus = CallStatusValue.Ringing -> NullId
      [] callStatus = CallStatusValue.Joined -> NullId
      [] callStatus = CallStatusValue.JoinedAdhoc -> "ACCEPTED"

\* Mutant of shouldSyncStatus: every status is synced.
shouldSyncStatusAlways(callStatus) == TRUE

\* Mutant of shouldSyncStatus: only an accepted call is synced.
shouldSyncStatusOnlyAccepted(callStatus) == statusToProto(callStatus) = "ACCEPTED"

shouldSyncStatus(callStatus) == statusToProto(callStatus) # NullId

typeToProto(type) ==
    CASE type = CallType.Audio -> "AUDIO_CALL"
      [] type = CallType.Video -> "VIDEO_CALL"
      [] type = CallType.Group -> "GROUP_CALL"
      [] type = CallType.Adhoc -> "AD_HOC_CALL"

directionToProto(direction) ==
    CASE direction = CallDirection.Incoming -> "INCOMING"
      [] direction = CallDirection.Outgoing -> "OUTGOING"

\* The CallEvent proto of a record whose status has a wire event.
getProtoForCallHistory(callHistory) ==
    [peerId |-> callHistory.peerId,
     callId |-> callHistory.callId,
     type |-> typeToProto(callHistory.type),
     direction |-> directionToProto(callHistory.direction),
     event |-> statusToProto(callHistory.status),
     timestamp |-> callHistory.timestamp]

\* The known values of a CallEvent proto's enum fields, and a value that is
\* none of them.
KnownWireTypes == {"GROUP_CALL", "AUDIO_CALL", "VIDEO_CALL", "AD_HOC_CALL"}
KnownWireDirections == {"INCOMING", "OUTGOING"}
KnownWireEvents == {"ACCEPTED", "NOT_ACCEPTED", "DELETE"}
UnknownWireValue == "UNKNOWN"

\* The TypeError of getCallEventForProto for an unknown type, direction or event.
UnknownCall(field) == "!TypeError: Unknown call " \o field

\* Mutant of getCallEventForProto: an unknown call type is taken for an audio
\* call instead of being refused.
getCallEventForProtoGuesses(callEventProto) ==
    LET type == CASE callEventProto.type = "GROUP_CALL" -> CallType.Group
                  [] callEventProto.type = "AUDIO_CALL" -> CallType.Audio
                  [] callEventProto.type = "VIDEO_CALL" -> CallType.Video
                  [] callEventProto.type = "AD_HOC_CALL" -> CallType.Adhoc
                  [] OTHER -> CallType.Audio
        direction == CASE callEventProto.direction = "INCOMING" -> CallDirection.Incoming
                       [] callEventProto.direction = "OUTGOING" -> CallDirection.Outgoing
                       [] OTHER -> NullId
        event == CASE callEventProto.event = "ACCEPTED" -> RemoteCallEvent.Accepted
                   [] callEventProto.event = "NOT_ACCEPTED" -> RemoteCallEvent.NotAccepted
                   [] callEventProto.event = "DELETE" -> RemoteCallEvent.Delete
                   [] OTHER -> NullId
    IN  IF direction = NullId THEN Thrown(UnknownCall("direction"))
        ELSE IF event = NullId THEN Thrown(UnknownCall("event"))
        ELSE Returned([callId |-> callEventProto.callId,
                       peerId |-> callEventProto.peerId,
                       ringerId |-> NullId,
                       mode |-> ModeOfType(type),
                       type |-> type,
                       direction |-> direction,
                       timestamp |-> callEventProto.timestamp,
                       event |-> event])

\* The event a linked device makes of a received CallEvent proto: Returned(event),
\* or Thrown(TypeError) for the first field, in the order type, direction, event,
\* whose value is not a known one.
getCallEventForProto(callEventProto) ==
    LET type == CASE callEventProto.type = "GROUP_CALL" -> CallType.Group
                  [] callEventProto.type = "AUDIO_CALL" -> CallType.Audio
                  [] callEventProto.type = "VIDEO_CALL" -> CallType.Video
                  [] callEventProto.type = "AD_HOC_CALL" -> CallType.Adhoc
                  [] OTHER -> NullId
        mode == IF type = CallType.Group THEN CallMode.Group
                ELSE IF type = CallType.Adhoc THEN CallMode.Adhoc
                ELSE CallMode.Direct
        direction == CASE callEventProto.direction = "INCOMING" -> CallDirection.Incoming
                       [] callEventProto.direction = "OUTGOING" -> CallDirection.Outgoing
                       [] OTHER -> NullId
        event == CASE callEventProto.event = "ACCEPTED" -> RemoteCallEvent.Accepted
                   [] callEventProto.event = "NOT_ACCEPTED" -> RemoteCallEvent.NotAccepted
                   [] callEventProto.event = "DELETE" -> RemoteCallEvent.Delete
                   [] OTHER -> NullId
    IN  IF type = NullId THEN Thrown(UnknownCall("type"))
        ELSE IF direction = NullId THEN Thrown(UnknownCall("direction"))
        ELSE IF event = NullId THEN Thrown(UnknownCall("event"))
        ELSE Returned([callId |-> callEventProto.callId,
                       peerId |-> callEventProto.peerId,
                       ringerId |-> NullId,
                       mode |-> mode,
                       type |-> type,
                       direction |-> direction,
                       timestamp |-> callEventProto.timestamp,
                       event |-> event])

\* ------------------------------------------------------------- variables
VARIABLES
    tHistory,   \* transition engine: the prior record, None or Some(record)
    tEvent,     \* transition engine: the event applied, None before it is
    tResult,    \* transitionCallHistory(tHistory, tEvent)
    tReplay,    \* transitionCallHistory(tResult.value, tEvent), the same event again
    tPhase,     \* "input", "done", "replayed"
    call,       \* reconciler: the call the device observes (type, direction, ringer)
    db,         \* reconciler: the persisted record of the call, None or Some(record)
    syncQueue,  \* reconciler: singleProtoJobQueue, the unsent outbound sync jobs
    last,       \* reconciler: the operation that ran last
    messages,   \* reconciler: the call-history messages stored for the call
    projection, \* reconciler: the record the UI projection shows, None or Some(record)
    counters,   \* reconciler: the conversation's message counts and the ids generated
    sCall,      \* linked devices: the call both devices observe
    sDb,        \* linked devices: each device's persisted record of the call
    sNet,       \* linked devices: the sync events in flight to each device
    sLocal,     \* linked devices: the number of local events reconciled so far
    sDelivered, \* linked devices: the number of sync events delivered so far
    jCall,      \* job queue: the call the device observes
    jStart,     \* job queue: the persisted record when the behaviour starts
    jStore,     \* job queue: the record, its messages, the projection, the counters
    jQueue,     \* job queue: the events of the jobs waiting on the conversation's queue
    jJob,       \* job queue: the running job after its read, None or Some(job)
    jOps,       \* job queue: the operations outside the queue that have read
    jDone,      \* job queue: the events whose reconciliation ended, in that order
    jSubmitted, \* job queue: the number of operations started
    jLast,      \* job queue: the step taken last
    deletes,       \* delete-for-me: the envelopeIds in the pending map
    dSyncRemovals, \* delete-for-me: the removeSyncTaskById calls made for each item's task
    dOnDelete,     \* delete-for-me: each item's onDelete call, its position and inputs
    dJob,          \* delete-for-me: each item's job on its conversation's queue
    dForMessage,   \* delete-for-me: each forMessage call, its position and its matches
    eNow,          \* expiring messages: Date.now()
    eMessages,     \* expiring messages: the expiry times of the messages stored
    eUpdate,       \* expiring messages: the debounced update is pending
    eChecks,       \* expiring messages: the soonest expiry read by each check in flight
    timeout,       \* expiring messages: this.timeout, the handle of the timer set last
    eTimers,       \* expiring messages: the timers created and the runs they started
    peekQueue,     \* call peeks: peekQueueRef, the peerIds in insertion order
    peekQueueArgs, \* call peeks: peekQueueArgsRef, the peek arguments by peerId
    inactiveCallLinksPeekedAt, \* call peeks: the peerIds with a stored peek time
    peekQueueTimer,   \* call peeks: peekQueueTimerRef, None or Some(interval)
    searchStateItems, \* call peeks: searchStateItemsRef, None or Some(rows)
    pIntervals,    \* call peeks: the intervals set and not cleared
    pPeeked,       \* call peeks: the peerIds peeked by the step taken last
    pMounted       \* call peeks: the component is mounted

tvars == <<tHistory, tEvent, tResult, tReplay, tPhase>>
rvars == <<call, db, syncQueue, last, messages, projection, counters>>
svars == <<sCall, sDb, sNet, sLocal, sDelivered>>
jvars == <<jCall, jStart, jStore, jQueue, jJob, jOps, jDone, jSubmitted, jLast>>
dvars == <<deletes, dSyncRemovals, dOnDelete, dJob, dForMessage>>
evars == <<eNow, eMessages, eUpdate, eChecks, timeout, eTimers>>
pvars == <<peekQueue, peekQueueArgs, inactiveCallLinksPeekedAt, peekQueueTimer,
           searchStateItems, pIntervals, pPeeked, pMounted>>
ovars == <<dvars, evars, pvars>>
vars == <<tHistory, tEvent, tResult, tReplay, tPhase, call, db, syncQueue, last,
          messages, projection, counters, sCall, sDb, sNet, sLocal, sDelivered,
          jCall, jStart, jStore, jQueue, jJob, jOps, jDone, jSubmitted, jLast,
          deletes, dSyncRemovals, dOnDelete, dJob, dForMessage,
          eNow, eMessages, eUpdate, eChecks, timeout, eTimers,
          peekQueue, peekQueueArgs, inactiveCallLinksPeekedAt, peekQueueTimer,
          searchStateItems, pIntervals, pPeeked, pMounted>>

Devices == {1, 2}

NoResult == [threw |-> FALSE, error |-> "", value |-> None]

NoOperation ==
    [op |-> "none", event |-> None, prior |-> None, threw |-> FALSE, error |-> "",
     enqueued |-> FALSE, sync |-> "none", notified |-> "none", rejected |-> FALSE]

NoCounters == [messageCount |-> 0, sentMessageCount |-> 0, generated |-> 0]

NoCall == [type |-> NullId, direction |-> NullId, ringerId |-> NullId]

TIdle ==
    /\ tHistory = None
    /\ tEvent = None
    /\ tResult = NoResult
    /\ tReplay = NoResult
    /\ tPhase = "idle"

RIdle ==
    /\ call = NoCall
    /\ db = None
    /\ syncQueue = <<>>
    /\ last = NoOperation
    /\ messages = {}
    /\ projection = None
    /\ counters = NoCounters

SIdle ==
    /\ sCall = NoCall
    /\ sDb = [d \in Devices |-> None]
    /\ sNet = [d \in Devices |-> {}]
    /\ sLocal = 0
    /\ sDelivered = 0

EmptyStore ==
    [db |-> None, messages |-> {}, projection |-> None, counters |-> NoCounters]

NoJobStep ==
    [op |-> "none", read |-> None, before |-> None, wrote |-> FALSE, returned |-> None]

JIdle ==
    /\ jCall = NoCall
    /\ jStart = None
    /\ jStore = EmptyStore
    /\ jQueue = <<>>
    /\ jJob = None
    /\ jOps = {}
    /\ jDone = <<>>
    /\ jSubmitted = 0
    /\ jLast = NoJobStep

\* The delete-for-me items that arrive, named by their envelopeId; item e
\* targets the message e and its sync task is the task e.
DeleteItems == {"e1", "e2"}

\* The number of forMessage calls of a behaviour.
MaxLookups == 2

NotCalled == [at |-> "new", conversation |-> FALSE, threw |-> FALSE]

NoLookup == [at |-> "idle", message |-> NullId, matchingDeletes |-> {}]

DeletesIdle ==
    /\ deletes = {}
    /\ dSyncRemovals = [item \in DeleteItems |-> 0]
    /\ dOnDelete = [item \in DeleteItems |-> NotCalled]
    /\ dJob = [item \in DeleteItems |-> "none"]
    /\ dForMessage = [k \in 1..MaxLookups |-> NoLookup]

\* Times in milliseconds, kept as whole seconds and the milliseconds within
\* the second (0..999): the sums the service computes pass 2147483647.
Instant(s, ms) == [s |-> s, ms |-> ms]

Zero == Instant(0, 0)

\* The largest delay setTimeout takes, 2147483647 ms.
MaxTimeout == Instant(2147483, 647)

\* 30 * SECOND
ThirtySeconds == Instant(30, 0)

\* The times Date.now() takes, and the expiry times of the messages stored.
Nows == {Instant(1, 0), Instant(2, 500), Instant(32, 500)}

Expiries == {Instant(1, 500), Instant(2147484, 647), Instant(2147484, 648)}

\* The number of timers setTimeout creates in a behaviour.
MaxTimers == 3

\* The number of checkExpiringMessages calls awaiting the store at once.
MaxChecks == 2

NoTimer == [state |-> "unused", delay |-> Zero, soonestExpiry |-> None, since |-> Zero]

ExpiringIdle ==
    /\ eNow = Instant(1, 0)
    /\ eMessages = {}
    /\ eUpdate = FALSE
    /\ eChecks = <<>>
    /\ timeout = None
    /\ eTimers = [h \in 1..MaxTimers |-> NoTimer]

PEEK_BATCH_COUNT == 10

INACTIVE_CALL_LINKS_TO_PEEK == 10

\* The call-history groups of the list, in row order: peers 1..5 are groups,
\* 6..11 call links, 12 a direct call, and the last row is peer 1 again.
CallItems ==
    [i \in 1..13 |->
        [peerId |-> IF i = 13 THEN 1 ELSE i,
         mode |-> IF i = 12 THEN CallMode.Direct
                  ELSE IF i \in 6..11 THEN CallMode.Adhoc ELSE CallMode.Group,
         recent |-> i # 11]]

\* The results a search returns: every row, the first rows, the last rows.
Pages == {CallItems, SubSeq(CallItems, 1, 7), SubSeq(CallItems, 8, 13)}

\* What the calling state tells enqueueCallPeeks: the peers whose call is
\* active, the conversation of the active call, and whether a stored peek
\* time is within INACTIVE_CALL_LINK_PEEK_INTERVAL.
CallingStates ==
    [active : {{}, 1..12, {2, 7}},
     activeCallConversationId : {None, Some(2)},
     peekedRecently : BOOLEAN]

PeeksIdle ==
    /\ peekQueue = <<>>
    /\ peekQueueArgs = {}
    /\ inactiveCallLinksPeekedAt = {}
    /\ peekQueueTimer = None
    /\ searchStateItems = None
    /\ pIntervals = 0
    /\ pPeeked = <<>>
    /\ pMounted = TRUE

OIdle == DeletesIdle /\ ExpiringIdle /\ PeeksIdle

\* ----------------------------------- the transition engine on its own
TInit ==
    /\ tHistory \in {None} \cup {Some(h) : h \in PriorHistories}
    /\ tEvent = None
    /\ tResult = NoResult
    /\ tReplay = NoResult
    /\ tPhase = "input"
    /\ RIdle
    /\ SIdle
    /\ JIdle
    /\ OIdle

\* One call of transitionCallHistory.
Transition ==
    /\ tPhase = "input"
    /\ \E e \in CallEvents :
        /\ tEvent' = Some(e)
        /\ tResult' = transitionCallHistory(tHistory, e)
    /\ tPhase' = "done"
    /\ UNCHANGED <<tHistory, tReplay>>
    /\ UNCHANGED <<rvars, svars, jvars, ovars>>

\* The same event delivered again, applied to the record the first call returned.
Replay ==
    /\ tPhase = "done"
    /\ ~tResult.threw
    /\ tReplay' = transitionCallHistory(tResult.value, tEvent[1])
    /\ tPhase' = "replayed"
    /\ UNCHANGED <<tHistory, tEvent, tResult>>
    /\ UNCHANGED <<rvars, svars, jvars, ovars>>

TNext == Transition \/ Replay

SpecTransition == TInit /\ [][TNext]_vars

\* ------------------------------ the decoding of sync payloads on its own
\* The CallEvent protos a linked device can receive for the call (c1, p1).
WireProtos ==
    {[peerId |-> "p1", callId |-> "c1", type |-> t, direction |-> d, event |-> e,
      timestamp |-> ts] :
        t \in KnownWireTypes \cup {UnknownWireValue},
        d \in KnownWireDirections \cup {UnknownWireValue},
        e \in KnownWireEvents \cup {UnknownWireValue},
        ts \in Timestamps}

PInit ==
    /\ tHistory \in {None} \cup {Some(h) : h \in PriorHistories}
    /\ tEvent \in {Some(proto) : proto \in WireProtos}
    /\ tResult = NoResult
    /\ tReplay = NoResult
    /\ tPhase = "wire"
    /\ RIdle
    /\ SIdle
    /\ JIdle
    /\ OIdle

\* One call of getCallEventForProto.
DecodeProto ==
    /\ tPhase = "wire"
    /\ tResult' = getCallEventForProto(tEvent[1])
    /\ tPhase' = "decoded"
    /\ UNCHANGED <<tHistory, tEvent, tReplay>>
    /\ UNCHANGED <<rvars, svars, jvars, ovars>>

\* The CallEventDetails that getCallEventForProto returned, if it returned one,
\* is handed to the transition engine.
DecodedEventApplied ==
    /\ tPhase = "decoded"
    /\ tResult.value # None
    /\ tReplay' = transitionCallHistory(tHistory, tResult.value[1])
    /\ tPhase' = "applied"
    /\ UNCHANGED <<tHistory, tEvent, tResult>>
    /\ UNCHANGED <<rvars, svars, jvars, ovars>>

PNext == DecodeProto \/ DecodedEventApplied

SpecProto == PInit /\ [][PNext]_vars

\* ------------------------------------------------------ the reconciler
\* The reconciler of one device, for one call (TheCallId, ThePeerId) of one
\* conversation.  Direct and group reconciliations run one at a time on the
\* conversation's job queue, so each is one step.
TheCallId == "c1"
ThePeerId == "p1"
PeerAci == "r1"
OurAci == "me"

\* The identifiers window.ConversationController.get resolves to a conversation,
\* and one it does not.
KnownContacts == {OurAci, PeerAci}
UnknownAci == "r9"

\* The failed strictAssert of getCallDirectionFromRingerId.
MissingRinger == "!getCallDirectionFromRingerId: Missing ringer conversation"

\* Mutant of getCallDirectionFromRingerId: a ringer that is not resolved makes
\* the call incoming.
getCallDirectionFromRingerIdDefaults(ringerId) ==
    IF ringerId = OurAci THEN CallDirection.Outgoing ELSE CallDirection.Incoming

\* getCallDirectionFromRingerId: outgoing exactly when the ringer's conversation
\* is the local user's; MissingRinger when the ringer has no conversation.
getCallDirectionFromRingerId(ringerId) ==
    IF ringerId \notin KnownContacts THEN MissingRinger
    ELSE IF ringerId = OurAci THEN CallDirection.Outgoing
    ELSE CallDirection.Incoming

\* The four builders of call details, by the kind of their input: "direct"
\* (getCallDetailsFromDirectCall), "ended" (getCallDetailsFromEndedDirectCall),
\* "group" (getCallDetailsFromGroupCallMeta), "adhoc" (getCallDetailsForAdhocCall).
\* The result is Returned(details) or Thrown(MissingRinger).
getCallDetails(in) ==
    LET fromRinger == getCallDirectionFromRingerId(in.ringerId)
        details(ringerId, type, direction) ==
            [callId |-> in.callId, peerId |-> in.peerId, ringerId |-> ringerId,
             mode |-> ModeOfType(type), type |-> type, direction |-> direction,
             timestamp |-> in.timestamp]
        directType == IF in.isVideoCall THEN CallType.Video ELSE CallType.Audio
    IN  CASE in.kind = "direct" ->
                Returned(details(IF in.isIncoming THEN in.ringerId ELSE NullId,
                                 directType,
                                 IF in.isIncoming THEN CallDirection.Incoming
                                 ELSE CallDirection.Outgoing))
          [] in.kind = "ended" ->
                IF fromRinger = MissingRinger THEN Thrown(MissingRinger)
                ELSE Returned(details(in.ringerId, directType, fromRinger))
          [] in.kind = "group" ->
                IF fromRinger = MissingRinger THEN Thrown(MissingRinger)
                ELSE Returned(details(in.ringerId, CallType.Group, fromRinger))
          [] in.kind = "adhoc" ->
                Returned(details(NullId, CallType.Adhoc, CallDirection.Incoming))

\* The calls a device can observe: the type, the direction and the ringer its
\* local call details name.  getCallDetailsFromDirectCall names the remote user
\* as ringer of an incoming call and nobody for an outgoing one;
\* getCallDetailsFromEndedDirectCall and getCallDetailsFromGroupCallMeta take the
\* direction from the ringer; getCallDetailsForAdhocCall is incoming, no ringer.
ObservableCalls ==
    {[type |-> t, direction |-> CallDirection.Incoming, ringerId |-> PeerAci] :
        t \in {CallType.Audio, CallType.Video, CallType.Group}}
    \cup {[type |-> t, direction |-> CallDirection.Outgoing, ringerId |-> r] :
        t \in {CallType.Audio, CallType.Video}, r \in {NullId, OurAci}}
    \cup {[type |-> CallType.Group, direction |-> getCallDirectionFromRingerId(OurAci),
           ringerId |-> OurAci]}
    \cup {[type |-> CallType.Adhoc, direction |-> CallDirection.Incoming,
           ringerId |-> NullId]}

\* The inputs of the builders of call details: who rang (the local user, the
\* peer, or somebody ConversationController does not know) and what the call is.
DetailsInputs ==
    {[kind |-> k, callId |-> c, peerId |-> ThePeerId, ringerId |-> r,
      isIncoming |-> i, isVideoCall |-> v, timestamp |-> ts] :
        k \in {"direct", "ended", "group", "adhoc"}, c \in CallIds,
        r \in KnownContacts \cup {UnknownAci}, i \in BOOLEAN, v \in BOOLEAN,
        ts \in Timestamps}

DInit ==
    /\ tHistory = None
    /\ tEvent \in {Some(in) : in \in DetailsInputs}
    /\ tResult = NoResult
    /\ tReplay = NoResult
    /\ tPhase = "input"
    /\ RIdle
    /\ SIdle
    /\ JIdle
    /\ OIdle

\* One call of a builder of call details.
BuildDetails ==
    /\ tPhase = "input"
    /\ tResult' = getCallDetails(tEvent[1])
    /\ tPhase' = "built"
    /\ UNCHANGED <<tHistory, tEvent, tReplay>>
    /\ UNCHANGED <<rvars, svars, jvars, ovars>>

SpecDetails == DInit /\ [][BuildDetails]_vars

\* getCallEventDetails: a local event of the observed call c.
getCallEventDetails(c, event, timestamp) ==
    [callId |-> TheCallId, peerId |-> ThePeerId, ringerId |-> c.ringerId,
     mode |-> ModeOfType(c.type), type |-> c.type, direction |-> c.direction,
     event |-> event, timestamp |-> timestamp]

\* The CallEvent protos linked devices send for the observed call c.
RemoteProtos(c) ==
    {[peerId |-> ThePeerId, callId |-> TheCallId, type |-> typeToProto(c.type),
      direction |-> directionToProto(c.direction), event |-> e, timestamp |-> ts] :
        e \in {"ACCEPTED", "NOT_ACCEPTED", "DELETE"}, ts \in Timestamps}

CallEventSyncJob(callHistory) ==
    [type |-> "callEventSync", proto |-> getProtoForCallHistory(callHistory)]

\* Mutant of updateRemoteCallHistory: a failed add is tried again and succeeds.
updateRemoteCallHistoryRetries(queue, callHistory, addFails) ==
    IF ~shouldSyncStatus(callHistory.status) THEN queue
    ELSE IF statusToProto(callHistory.status) = NullId THEN queue
    ELSE Append(queue, CallEventSyncJob(callHistory))

\* updateRemoteCallHistory: the queue after it ran for callHistory; addFails is
\* whether singleProtoJobQueue.add threw (caught and logged).
updateRemoteCallHistory(queue, callHistory, addFails) ==
    IF ~shouldSyncStatus(callHistory.status) THEN queue
    ELSE IF statusToProto(callHistory.status) = NullId THEN queue
    ELSE IF addFails THEN queue
    ELSE Append(queue, CallEventSyncJob(callHistory))

\* How updateRemoteCallHistory ended for callHistory: "skipped" (status not
\* synced), "asserted" (the strictAssert of getProtoForCallHistory failed, caught
\* and logged), "failed" (singleProtoJobQueue.add threw, caught and logged) or
\* "enqueued".
SyncOutcome(callHistory, addFails) ==
    IF ~shouldSyncStatus(callHistory.status) THEN "skipped"
    ELSE IF statusToProto(callHistory.status) = NullId THEN "asserted"
    ELSE IF addFails THEN "failed"
    ELSE "enqueued"

\* Mutant of SavedOrDropped: a failed transition's empty result is saved.
SavedOrDroppedLosesRecord(prevCallHistory, r) ==
    [db |-> r.value, returned |-> r.value, threw |-> r.threw, error |-> r.error]

\* The outcome of a reconciliation job whose transition gave r: a throw is
\* caught and logged and the job returns null; otherwise saveCallHistory
\* persists the record and the job returns it.
SavedOrDropped(prevCallHistory, r) ==
    IF r.threw
    THEN [db |-> prevCallHistory, returned |-> None, threw |-> TRUE, error |-> r.error]
    ELSE [db |-> r.value, returned |-> r.value, threw |-> FALSE, error |-> ""]

\* The same for an adhoc call: a record equal to the stored one is not saved again.
AdhocSavedOrDropped(prevCallHistory, r) ==
    IF r.threw
    THEN [db |-> prevCallHistory, returned |-> None, threw |-> TRUE, error |-> r.error]
    ELSE IF prevCallHistory # None /\ prevCallHistory = r.value
    THEN [db |-> prevCallHistory, returned |-> r.value, threw |-> FALSE, error |-> ""]
    ELSE [db |-> r.value, returned |-> r.value, threw |-> FALSE, error |-> ""]

\* updateLocalCallHistory: the record persisted after the queued job ran, and
\* what the job returned.
updateLocalCallHistory(prevCallHistory, callEvent) ==
    SavedOrDropped(prevCallHistory, transitionCallHistory(prevCallHistory, callEvent))

\* updateLocalAdhocCallHistory: the same for an adhoc call.
updateLocalAdhocCallHistory(prevCallHistory, callEvent) ==
    AdhocSavedOrDropped(prevCallHistory, transitionCallHistory(prevCallHistory, callEvent))

\* The store and the queue after a local update u followed by
\* updateRemoteCallHistory of the record it returned, if it returned one.
ThenSynced(u, queue, addFails) ==
    [db |-> u.db, threw |-> u.threw, error |-> u.error,
     queue |-> IF u.returned = None THEN queue
               ELSE updateRemoteCallHistory(queue, u.returned[1], addFails),
     sync |-> IF u.returned = None THEN "none"
              ELSE SyncOutcome(u.returned[1], addFails)]

\* The store and the queue after a local update u that nothing follows.
NotSynced(u, queue) ==
    [db |-> u.db, threw |-> u.threw, error |-> u.error, queue |-> queue,
     sync |-> "none"]

\* Mutant of reconcileLocalEvent: an unchanged record is not synced.
reconcileLocalEventOnlyOnChange(prevCallHistory, queue, callEvent, addFails) ==
    IF updateLocalCallHistory(prevCallHistory, callEvent).db = prevCallHistory
    THEN NotSynced(updateLocalCallHistory(prevCallHistory, callEvent), queue)
    ELSE ThenSynced(updateLocalCallHistory(prevCallHistory, callEvent), queue, addFails)

\* updateCallHistoryFromLocalEvent: the store and the queue after it ran.
reconcileLocalEvent(prevCallHistory, queue, callEvent, addFails) ==
    ThenSynced(updateLocalCallHistory(prevCallHistory, callEvent), queue, addFails)

\* updateAdhocCallHistory: the store and the queue after it ran.
reconcileAdhocEvent(prevCallHistory, queue, callEvent, addFails) ==
    ThenSynced(updateLocalAdhocCallHistory(prevCallHistory, callEvent), queue, addFails)

\* Mutant of reconcileRemoteEvent: the remote event is synced back like a local one.
reconcileRemoteEventEchoes(prevCallHistory, queue, callEvent) ==
    ThenSynced(IF callEvent.mode = CallMode.Direct \/ callEvent.mode = CallMode.Group
               THEN updateLocalCallHistory(prevCallHistory, callEvent)
               ELSE updateLocalAdhocCallHistory(prevCallHistory, callEvent),
               queue, FALSE)

\* updateCallHistoryFromRemoteEvent: the store and the queue after it ran.
reconcileRemoteEvent(prevCallHistory, queue, callEvent) ==
    NotSynced(IF callEvent.mode = CallMode.Direct \/ callEvent.mode = CallMode.Group
              THEN updateLocalCallHistory(prevCallHistory, callEvent)
              ELSE updateLocalAdhocCallHistory(prevCallHistory, callEvent),
              queue)

\* ------------------------------------------------- display messages
\* SeenStatus and maxSeenStatus (MessageSeenStatus) are imported, not defined,
\* by callDisposition: the more seen of two, Unseen being the least.
SeenStatus == [NotApplicable |-> "NotApplicable", Unseen |-> "Unseen", Seen |-> "Seen"]

SeenRank(seenStatus) ==
    CASE seenStatus = SeenStatus.Unseen -> 0
      [] seenStatus = SeenStatus.NotApplicable -> 1
      [] seenStatus = SeenStatus.Seen -> 2

maxSeenStatus(a, b) == IF SeenRank(a) >= SeenRank(b) THEN a ELSE b

\* saveCallHistory's `unseen`.
IsUnseen(callHistory) ==
    IF callHistory.mode = CallMode.Direct
    THEN /\ callHistory.direction = CallDirection.Incoming
         /\ callHistory.status \in {DirectCallStatus.Missed, DirectCallStatus.Pending}
    ELSE IF callHistory.mode = CallMode.Group
    THEN /\ callHistory.direction = CallDirection.Incoming
         /\ callHistory.status \in {GroupCallStatus.Ringing,
                                    GroupCallStatus.GenericGroupCall,
                                    GroupCallStatus.Missed}
    ELSE FALSE

\* Mutant of MergedSeenStatus: the earlier message's seen status is forgotten.
MergedSeenStatusForgets(prevMessage, callHistory) ==
    IF IsUnseen(callHistory) THEN SeenStatus.Unseen ELSE SeenStatus.NotApplicable

\* saveCallHistory's seenStatus; prevMessage is None or Some(message).
MergedSeenStatus(prevMessage, callHistory) ==
    IF prevMessage = None
    THEN (IF IsUnseen(callHistory) THEN SeenStatus.Unseen ELSE SeenStatus.NotApplicable)
    ELSE maxSeenStatus(IF IsUnseen(callHistory)
                       THEN SeenStatus.Unseen ELSE SeenStatus.NotApplicable,
                       prevMessage[1].seenStatus)

\* Mutant of MessageId: every save generates an id.
MessageIdAlwaysGenerated(prevMessage, generated) == generated + 1

\* The id of the message saveCallHistory saves: the earlier message's, or a
\* generated one (generateGuid: the ids generated so far are 1..generated).
MessageId(prevMessage, generated) ==
    IF prevMessage = None THEN generated + 1 ELSE prevMessage[1].id

\* The call-history message saveCallHistory saves for callHistory.
CallHistoryMessage(prevMessage, callHistory, generated) ==
    [id |-> MessageId(prevMessage, generated),
     timestamp |-> IF prevMessage = None THEN callHistory.timestamp
                   ELSE prevMessage[1].timestamp,
     seenStatus |-> MergedSeenStatus(prevMessage, callHistory),
     callId |-> callHistory.callId]

\* The counters after saveCallHistory saved the message: a new message counts
\* as sent (outgoing) or received, an updated one is not counted.
CountersAfterSave(prevMessage, callHistory, c) ==
    IF prevMessage # None THEN c
    ELSE IF callHistory.direction = CallDirection.Outgoing
    THEN [c EXCEPT !.sentMessageCount = @ + 1, !.generated = @ + 1]
    ELSE [c EXCEPT !.messageCount = @ + 1, !.generated = @ + 1]

\* Data.getCallHistoryMessageByCallId: a stored message of the call, if any.
getCallHistoryMessageByCallId(msgs, callId) ==
    IF \E m \in msgs : m.callId = callId
    THEN Some(CHOOSE m \in msgs : m.callId = callId)
    ELSE None

\* Data.removeMessage(id).
removeMessage(msgs, prevMessage) ==
    IF prevMessage = None THEN msgs ELSE {m \in msgs : m.id # prevMessage[1].id}

\* Data.saveMessage(message): the message replaces the stored one of its id.
saveMessage(msgs, msg) == {m \in msgs : m.id # msg.id} \cup {msg}

\* The store after saveCallHistory found prevMessage and saved callHistory.
SavedWithMessage(store, callHistory, prevMessage) ==
    IF callHistory.status \in {DirectCallStatus.Deleted, GroupCallStatus.Deleted}
    THEN [db |-> Some(callHistory), projection |-> None,
          messages |-> removeMessage(store.messages, prevMessage),
          counters |-> store.counters]
    ELSE [db |-> Some(callHistory),
          projection |-> Some(callHistory),
          messages |-> saveMessage(store.messages,
                           CallHistoryMessage(prevMessage, callHistory,
                                              store.counters.generated)),
          counters |-> CountersAfterSave(prevMessage, callHistory, store.counters)]

\* Mutant of saveCallHistory: a Deleted record's message is left in place.
saveCallHistoryKeepsMessage(store, callHistory) ==
    IF callHistory.status \in {DirectCallStatus.Deleted, GroupCallStatus.Deleted}
    THEN [db |-> Some(callHistory), projection |-> None,
          messages |-> store.messages, counters |-> store.counters]
    ELSE SavedWithMessage(store, callHistory,
             getCallHistoryMessageByCallId(store.messages, callHistory.callId))

\* saveCallHistory: the store (record, UI projection, display messages,
\* counters) after it saved callHistory.
saveCallHistory(store, callHistory) ==
    SavedWithMessage(store, callHistory,
                     getCallHistoryMessageByCallId(store.messages, callHistory.callId))

\* The store after updateLocalAdhocCallHistory saved callHistory: an adhoc call
\* has no display message.
saveAdhocCallHistory(store, callHistory) ==
    [store EXCEPT !.db = Some(callHistory),
                  !.projection = IF callHistory.status = AdhocCallStatus.Deleted
                                 THEN None ELSE Some(callHistory)]

\* The store after a reconciliation of callEvent with outcome r: nothing is
\* saved when the transition threw.
StoreAfter(store, callEvent, r) ==
    IF r.threw THEN [store EXCEPT !.db = r.db]
    ELSE IF callEvent.mode = CallMode.Adhoc THEN saveAdhocCallHistory(store, r.db[1])
    ELSE saveCallHistory(store, r.db[1])

\* What the UI projection was told: addCallHistory, removeCallHistory or nothing.
Notified(r) ==
    IF r.threw THEN "none"
    ELSE IF r.db[1].status = CallStatusValue.Deleted THEN "remove"
    ELSE "add"

\* A record an earlier version of the program left in the store: only those
\* wrote the status OutgoingRing, for a group call this user rang.
StoredAtStartup(c) ==
    IF c.type = CallType.Group /\ c.direction = CallDirection.Outgoing
    THEN {Some([callId |-> TheCallId, peerId |-> ThePeerId, ringerId |-> c.ringerId,
                mode |-> CallMode.Group, type |-> CallType.Group,
                direction |-> c.direction, timestamp |-> ts,
                status |-> GroupCallStatus.OutgoingRing]) : ts \in Timestamps}
    ELSE {}

\* The display message such a record has, if it has one.
MessageAtStartup(callHistory) ==
    [id |-> 0, timestamp |-> callHistory.timestamp,
     seenStatus |-> SeenStatus.NotApplicable, callId |-> callHistory.callId]

RInit ==
    /\ call \in ObservableCalls
    /\ db \in {None} \cup StoredAtStartup(call)
    /\ syncQueue = <<>>
    /\ last = NoOperation
    /\ messages \in IF db = None THEN {{}} ELSE {{}, {MessageAtStartup(db[1])}}
    /\ projection = db
    /\ counters = NoCounters
    /\ TIdle
    /\ SIdle
    /\ JIdle
    /\ OIdle

CurrentStore ==
    [db |-> db, messages |-> messages, projection |-> projection, counters |-> counters]

\* The device's step to the store `after`.
Stores(after) ==
    /\ db' = after.db
    /\ messages' = after.messages
    /\ projection' = after.projection
    /\ counters' = after.counters

\* The step of the device that reconciled callEvent with outcome r.
Reconciles(op, callEvent, r) ==
    /\ last = NoOperation
    /\ Stores(StoreAfter(CurrentStore, callEvent, r))
    /\ syncQueue' = r.queue
    /\ last' = [op |-> op, event |-> Some(callEvent), prior |-> db,
                threw |-> r.threw, error |-> r.error,
                enqueued |-> r.queue # syncQueue, sync |-> r.sync,
                notified |-> Notified(r), rejected |-> FALSE]
    /\ UNCHANGED call
    /\ UNCHANGED <<tvars, svars, jvars, ovars>>

LocalEventReconciled(callEvent, addFails) ==
    Reconciles("local", callEvent, reconcileLocalEvent(db, syncQueue, callEvent, addFails))

AdhocEventReconciled(callEvent, addFails) ==
    Reconciles("adhoc", callEvent, reconcileAdhocEvent(db, syncQueue, callEvent, addFails))

RemoteEventReconciled(callEvent) ==
    Reconciles("remote", callEvent, reconcileRemoteEvent(db, syncQueue, callEvent))

\* Whether singleProtoJobQueue.add can throw after the local update u: only when
\* updateRemoteCallHistory reaches it.
AddOutcomes(u) ==
    IF u.returned = None THEN {FALSE}
    ELSE IF SyncOutcome(u.returned[1], FALSE) = "enqueued" THEN BOOLEAN
    ELSE {FALSE}

updateCallHistoryFromLocalEvent ==
    /\ ModeOfType(call.type) \in {CallMode.Direct, CallMode.Group}
    /\ Len(syncQueue) < MaxSyncJobs
    /\ \E event \in LocalEvents, timestamp \in Timestamps :
        \E addFails \in AddOutcomes(updateLocalCallHistory(db,
                            getCallEventDetails(call, event, timestamp))) :
            LocalEventReconciled(getCallEventDetails(call, event, timestamp), addFails)

updateAdhocCallHistory ==
    /\ ModeOfType(call.type) = CallMode.Adhoc
    /\ Len(syncQueue) < MaxSyncJobs
    /\ \E event \in LocalEvents, timestamp \in Timestamps :
        \E addFails \in AddOutcomes(updateLocalAdhocCallHistory(db,
                            getCallEventDetails(call, event, timestamp))) :
            AdhocEventReconciled(getCallEventDetails(call, event, timestamp), addFails)

updateCallHistoryFromRemoteEvent ==
    \E proto \in RemoteProtos(call) :
        RemoteEventReconciled(getCallEventForProto(proto).value[1])

\* ------------------------------------------------------ bulk operations
\* Data.clearCallHistory(latestCall) is not defined by callDisposition: the
\* calls up to latestCall become Deleted and their display messages are removed.
clearCallHistory(store, latestCall) ==
    IF store.db # None /\ store.db[1].timestamp <= latestCall.timestamp
    THEN [store EXCEPT !.db = Some([store.db[1] EXCEPT !.status = CallStatusValue.Deleted]),
                       !.messages = {}]
    ELSE store

\* Data.markAllCallHistoryRead(latestCall) and
\* Data.markAllCallHistoryReadInConversation(latestCall) are not defined by
\* callDisposition: the unseen call-history messages up to latestCall become Seen.
markAllCallHistoryRead(store, latestCall) ==
    [store EXCEPT !.messages =
        {IF m.timestamp <= latestCall.timestamp /\ m.seenStatus = SeenStatus.Unseen
         THEN [m EXCEPT !.seenStatus = SeenStatus.Seen]
         ELSE m : m \in store.messages}]

\* MessageSender.getClearCallHistoryMessage(latestCall): the job of a
\* CallLogEvent of type CLEAR.
ClearCallHistoryJob(latestCall) ==
    [type |-> "callLogEventSync",
     proto |-> [type |-> "CLEAR", timestamp |-> latestCall.timestamp,
                peerId |-> latestCall.peerId, callId |-> latestCall.callId]]

\* Mutant of CallLogEventType: always the conversation-wide type.
CallLogEventTypeIgnoresFlag(inConversation) == "MARKED_AS_READ"

CallLogEventType(inConversation) ==
    IF inConversation THEN "MARKED_AS_READ_IN_CONVERSATION" ELSE "MARKED_AS_READ"

\* The job markAllCallHistoryReadAndSync adds to singleProtoJobQueue.
CallLogEventSyncJob(latestCall, inConversation) ==
    [type |-> "callLogEventSync",
     proto |-> [type |-> CallLogEventType(inConversation),
                timestamp |-> latestCall.timestamp,
                peerId |-> latestCall.peerId, callId |-> latestCall.callId]]

\* How a bulk operation ended: everything is inside one try block, so a failed
\* Data call ("dataFailed") or a failed add ("failed") is logged and nothing
\* is enqueued.
BulkOutcome(dataFails, addFails) ==
    IF dataFails THEN "dataFailed" ELSE IF addFails THEN "failed" ELSE "enqueued"

\* Mutant of BulkStep: the sync job is added although the Data call failed.
BulkStepSyncsAnyway(op, details, after, job, dataFails, addFails) ==
    /\ last = NoOperation
    /\ Stores(IF dataFails THEN CurrentStore ELSE after)
    /\ syncQueue' = IF addFails THEN syncQueue ELSE Append(syncQueue, job)
    /\ last' = [op |-> op, event |-> Some(details), prior |-> db,
                threw |-> FALSE, error |-> "",
                enqueued |-> ~addFails,
                sync |-> BulkOutcome(dataFails, addFails),
                notified |-> "none", rejected |-> FALSE]
    /\ UNCHANGED call
    /\ UNCHANGED <<tvars, svars, jvars, ovars>>

\* The step of a bulk operation for latestCall that made the store `after` and
\* adds `job`.
BulkStep(op, details, after, job, dataFails, addFails) ==
    /\ last = NoOperation
    /\ Stores(IF dataFails THEN CurrentStore ELSE after)
    /\ syncQueue' = IF dataFails \/ addFails THEN syncQueue ELSE Append(syncQueue, job)
    /\ last' = [op |-> op, event |-> Some(details), prior |-> db,
                threw |-> FALSE, error |-> "",
                enqueued |-> ~(dataFails \/ addFails),
                sync |-> BulkOutcome(dataFails, addFails),
                notified |-> "none", rejected |-> FALSE]
    /\ UNCHANGED call
    /\ UNCHANGED <<tvars, svars, jvars, ovars>>

\* The calls list offers the bulk operations for the latest call it shows.
clearCallHistoryDataAndSync ==
    /\ db # None
    /\ Len(syncQueue) < MaxSyncJobs
    /\ \E dataFails \in BOOLEAN :
       \E addFails \in IF dataFails THEN {FALSE} ELSE BOOLEAN :
        BulkStep("clear", [latestCall |-> db[1], inConversation |-> FALSE],
                 clearCallHistory(CurrentStore, db[1]),
                 ClearCallHistoryJob(db[1]), dataFails, addFails)

markAllCallHistoryReadAndSync ==
    /\ db # None
    /\ Len(syncQueue) < MaxSyncJobs
    /\ \E inConversation \in BOOLEAN, dataFails \in BOOLEAN :
       \E addFails \in IF dataFails THEN {FALSE} ELSE BOOLEAN :
        BulkStep("markRead", [latestCall |-> db[1], inConversation |-> inConversation],
                 markAllCallHistoryRead(CurrentStore, db[1]),
                 CallLogEventSyncJob(db[1], inConversation), dataFails, addFails)

\* ------------------------------------- updateLocalGroupCallHistoryTimestamp
\* Mutant of TimestampUpdated: a later timestamp is written too.
TimestampUpdatedTakesLater(store, prevCallHistory, timestamp) ==
    IF prevCallHistory = None THEN store
    ELSE saveCallHistory(store, [prevCallHistory[1] EXCEPT !.timestamp = timestamp])

\* The store after updateLocalGroupCallHistoryTimestamp read prevCallHistory and
\* went on with it: only an earlier timestamp is written.
TimestampUpdated(store, prevCallHistory, timestamp) ==
    IF prevCallHistory = None THEN store
    ELSE IF timestamp >= prevCallHistory[1].timestamp THEN store
    ELSE saveCallHistory(store, [prevCallHistory[1] EXCEPT !.timestamp = timestamp])

\* What updateLocalGroupCallHistoryTimestamp returns after it read
\* prevCallHistory: null without a record, the record itself when the timestamp
\* is not earlier, and otherwise the record saveCallHistory was given.
TimestampReturned(prevCallHistory, timestamp) ==
    IF prevCallHistory = None THEN None
    ELSE IF timestamp >= prevCallHistory[1].timestamp THEN prevCallHistory
    ELSE Some([prevCallHistory[1] EXCEPT !.timestamp = timestamp])

\* The step of updateLocalGroupCallHistoryTimestamp to the store `after`,
\* returning `returned`.
TimestampStep(timestamp, after, returned) ==
    /\ last = NoOperation
    /\ Stores(after)
    /\ last' = [op |-> "timestamp",
                event |-> Some([timestamp |-> timestamp, returned |-> returned]),
                prior |-> db, threw |-> FALSE, error |-> "", enqueued |-> FALSE,
                sync |-> "none",
                notified |-> IF after.db = db THEN "none"
                             ELSE IF after.db[1].status = CallStatusValue.Deleted
                             THEN "remove" ELSE "add",
                rejected |-> FALSE]
    /\ UNCHANGED <<call, syncQueue>>
    /\ UNCHANGED <<tvars, svars, jvars, ovars>>

\* conversationFound is whether ConversationController.get(conversationId)
\* returned the conversation.
updateLocalGroupCallHistoryTimestamp ==
    /\ ModeOfType(call.type) = CallMode.Group
    /\ \E timestamp \in Timestamps, conversationFound \in BOOLEAN :
        IF conversationFound
        THEN TimestampStep(timestamp, TimestampUpdated(CurrentStore, db, timestamp),
                           TimestampReturned(db, timestamp))
        ELSE TimestampStep(timestamp, CurrentStore, None)

\* The job queue sends its oldest job.
runSyncJob ==
    /\ last = NoOperation
    /\ syncQueue # <<>>
    /\ syncQueue' = Tail(syncQueue)
    /\ last' = [op |-> "send", event |-> None, prior |-> db,
                threw |-> FALSE, error |-> "", enqueued |-> FALSE, sync |-> "none",
                notified |-> "none", rejected |-> FALSE]
    /\ UNCHANGED <<call, db, messages, projection, counters>>
    /\ UNCHANGED <<tvars, svars, jvars, ovars>>

\* The promise of the operation that ran last settles: its caller goes on, and
\* the device takes up the next operation.
operationSettled ==
    /\ last # NoOperation
    /\ last' = NoOperation
    /\ UNCHANGED <<call, db, syncQueue, messages, projection, counters>>
    /\ UNCHANGED <<tvars, svars, jvars, ovars>>

Next ==
    \/ operationSettled
    \/ updateCallHistoryFromLocalEvent
    \/ updateAdhocCallHistory
    \/ updateCallHistoryFromRemoteEvent
    \/ clearCallHistoryDataAndSync
    \/ markAllCallHistoryReadAndSync
    \/ updateLocalGroupCallHistoryTimestamp
    \/ runSyncJob

Spec == RInit /\ [][Next]_vars

\* ------------------------------------------------- two linked devices
\* Two devices of one user observe the same call.  Each reconciles its own
\* local events; every sync job a device enqueues is sent (no enqueue fails)
\* and is delivered to the other device, in any order, where
\* updateCallHistoryFromRemoteEvent reconciles it.
OtherDevice(d) == IF d = 1 THEN 2 ELSE 1

SInit ==
    /\ sCall \in ObservableCalls
    /\ sDb = [d \in Devices |-> None]
    /\ sNet = [d \in Devices |-> {}]
    /\ sLocal = 0
    /\ sDelivered = 0
    /\ TIdle
    /\ RIdle
    /\ JIdle
    /\ OIdle

\* The sync events of the jobs in a queue.
Sent(queue) == {queue[i].proto : i \in 1..Len(queue)}

\* A device's own event goes through updateAdhocCallHistory or
\* updateCallHistoryFromLocalEvent, by the mode of the call.
reconcileOwnEvent(prevCallHistory, callEvent) ==
    IF callEvent.mode = CallMode.Adhoc
    THEN reconcileAdhocEvent(prevCallHistory, <<>>, callEvent, FALSE)
    ELSE reconcileLocalEvent(prevCallHistory, <<>>, callEvent, FALSE)

\* Device d stores the outcome r of a reconciliation, the sync events in
\* `delivered` leave its inbox and those r enqueued go to the other device.
DeviceReconciles(d, r, delivered) ==
    /\ sDb' = [sDb EXCEPT ![d] = r.db]
    /\ sNet' = [e \in Devices |->
                  IF e = d THEN sNet[d] \ delivered ELSE sNet[e] \cup Sent(r.queue)]

\* Device d reconciles a local event and sends what it enqueues.
DeviceLocalEvent(d) ==
    /\ sLocal < MaxLocalEvents
    /\ \E event \in LocalEvents, timestamp \in Timestamps :
        DeviceReconciles(d,
            reconcileOwnEvent(sDb[d], getCallEventDetails(sCall, event, timestamp)), {})
    /\ sLocal' = sLocal + 1
    /\ UNCHANGED <<sCall, sDelivered>>
    /\ UNCHANGED <<tvars, rvars, jvars, ovars>>

\* A sync event in flight to device d is delivered and reconciled there.
DeviceRemoteEvent(d) ==
    /\ \E proto \in sNet[d] :
        DeviceReconciles(d,
            reconcileRemoteEvent(sDb[d], <<>>, getCallEventForProto(proto).value[1]), {proto})
    /\ sDelivered' = IF sDelivered < MaxLocalEvents THEN sDelivered + 1 ELSE sDelivered
    /\ UNCHANGED <<sCall, sLocal>>
    /\ UNCHANGED <<tvars, rvars, jvars, ovars>>

SNext == \E d \in Devices : DeviceLocalEvent(d) \/ DeviceRemoteEvent(d)

SpecSync == SInit /\ [][SNext]_vars

\* ------------------------------------------ the conversation's job queue
\* One conversation with its asynchronous operations taken apart at their
\* awaits.  updateLocalCallHistory hands its body to conversation.queueJob,
\* which runs the bodies handed to it one at a time, in the order they were
\* handed in; updateLocalAdhocCallHistory and
\* updateLocalGroupCallHistoryTimestamp read the record, await, and write it
\* outside any queue.  Each operation reads the record in one step and
\* transitions and saves in a later one.

\* The events updateLocalCallHistory and updateLocalAdhocCallHistory receive for
\* the observed call c: local events and the events of linked devices.
JobEvents(c) ==
    {getCallEventDetails(c, event, timestamp) :
        event \in LocalEvents, timestamp \in Timestamps}
    \cup {getCallEventForProto(proto).value[1] : proto \in RemoteProtos(c)}

\* The record after a reconciliation that applies callEvent to it and saves the
\* result, or leaves it alone when the transition throws.
Applied(r, prevCallHistory) == IF r.threw THEN prevCallHistory ELSE r.value

RECURSIVE AppliedInOrder(_, _)
\* The record after the events of the sequence were reconciled one after the
\* other, starting from callHistory.
AppliedInOrder(callHistory, events) ==
    IF events = <<>> THEN callHistory
    ELSE AppliedInOrder(Applied(transitionCallHistory(callHistory, Head(events)),
                                callHistory),
                        Tail(events))

RECURSIVE AppliedInSomeOrder(_, _, _)
\* The records that reconciling the events at the indexes `left` of the sequence
\* one after the other, in any order, can end with.
AppliedInSomeOrder(callHistory, events, left) ==
    IF left = {} THEN {callHistory}
    ELSE UNION {AppliedInSomeOrder(
                    Applied(transitionCallHistory(callHistory, events[i]), callHistory),
                    events, left \ {i}) : i \in left}

\* The stores a conversation can be in when a behaviour starts: empty, or
\* holding the record and the message one reconciliation of the call saved.
StoresAtStart(c) ==
    {EmptyStore}
    \cup IF ModeOfType(c.type) = CallMode.Adhoc
         THEN {saveAdhocCallHistory(EmptyStore, transitionCallHistory(None, e).value[1]) :
                  e \in {e \in JobEvents(c) : ~transitionCallHistory(None, e).threw}}
         ELSE {saveCallHistory(EmptyStore, transitionCallHistory(None, e).value[1]) :
                  e \in {e \in JobEvents(c) : ~transitionCallHistory(None, e).threw}}

JInit ==
    /\ jCall \in ObservableCalls
    /\ jStore \in StoresAtStart(jCall)
    /\ jStart = jStore.db
    /\ jQueue = <<>>
    /\ jJob = None
    /\ jOps = {}
    /\ jDone = <<>>
    /\ jSubmitted = 0
    /\ jLast = NoJobStep
    /\ TIdle
    /\ RIdle
    /\ SIdle
    /\ OIdle

JobStep(op, read, wrote) ==
    [op |-> op, read |-> read, before |-> jStore.db, wrote |-> wrote, returned |-> None]

\* updateLocalCallHistory hands the job for callEvent to the conversation's queue.
queueJob ==
    /\ ModeOfType(jCall.type) \in {CallMode.Direct, CallMode.Group}
    /\ jSubmitted < MaxJobs
    /\ \E callEvent \in JobEvents(jCall) :
        jQueue' = Append(jQueue, callEvent)
    /\ jSubmitted' = jSubmitted + 1
    /\ jLast' = JobStep("queueJob", None, FALSE)
    /\ UNCHANGED <<jCall, jStart, jStore, jJob, jOps, jDone>>
    /\ UNCHANGED <<tvars, rvars, svars, ovars>>

\* The queue starts its oldest job when none is running; the job reads the
\* record (await Data.getCallHistory).
jobReads ==
    /\ jJob = None
    /\ jQueue # <<>>
    /\ jJob' = Some([callEvent |-> Head(jQueue), prevCallHistory |-> jStore.db])
    /\ jQueue' = Tail(jQueue)
    /\ jLast' = JobStep("jobReads", jStore.db, FALSE)
    /\ UNCHANGED <<jCall, jStart, jStore, jOps, jDone, jSubmitted>>
    /\ UNCHANGED <<tvars, rvars, svars, ovars>>

\* The store after a job that read prevCallHistory transitioned it with outcome
\* r: saveCallHistory of the result, or nothing when the transition threw.
JobSaved(store, r) ==
    IF r.threw THEN store ELSE saveCallHistory(store, r.value[1])

JobEnds(job, r) ==
    /\ jStore' = JobSaved(jStore, r)
    /\ jDone' = Append(jDone, job.callEvent)
    /\ jJob' = None
    /\ jLast' = JobStep("jobWrites", job.prevCallHistory, ~r.threw)
    /\ UNCHANGED <<jCall, jStart, jQueue, jOps, jSubmitted>>
    /\ UNCHANGED <<tvars, rvars, svars, ovars>>

\* The running job transitions the record it read and saves the result.
jobWrites ==
    /\ jJob # None
    /\ JobEnds(jJob[1], transitionCallHistory(jJob[1].prevCallHistory, jJob[1].callEvent))

\* updateLocalGroupCallHistoryTimestamp reads the record of a group call.
timestampReads ==
    /\ ModeOfType(jCall.type) = CallMode.Group
    /\ jSubmitted < MaxJobs
    /\ \E timestamp \in Timestamps :
        jOps' = jOps \cup {[op |-> "timestamp", timestamp |-> timestamp,
                            callEvent |-> None, prevCallHistory |-> jStore.db]}
    /\ jSubmitted' = jSubmitted + 1
    /\ jLast' = JobStep("timestampReads", jStore.db, FALSE)
    /\ UNCHANGED <<jCall, jStart, jStore, jQueue, jJob, jDone>>
    /\ UNCHANGED <<tvars, rvars, svars, ovars>>

TimestampEnds(o, after) ==
    /\ jStore' = after
    /\ jOps' = jOps \ {o}
    /\ jLast' = JobStep("timestampWrites", o.prevCallHistory,
                        /\ o.prevCallHistory # None
                        /\ o.timestamp < o.prevCallHistory[1].timestamp)
    /\ UNCHANGED <<jCall, jStart, jQueue, jJob, jDone, jSubmitted>>
    /\ UNCHANGED <<tvars, rvars, svars, ovars>>

\* updateLocalGroupCallHistoryTimestamp goes on with the record it read: it
\* saves that record with the earlier timestamp, or returns.
timestampWrites ==
    \E o \in jOps :
        /\ o.op = "timestamp"
        /\ TimestampEnds(o, TimestampUpdated(jStore, o.prevCallHistory, o.timestamp))

\* updateLocalAdhocCallHistory reads the record of an adhoc call.
adhocReads ==
    /\ ModeOfType(jCall.type) = CallMode.Adhoc
    /\ jSubmitted < MaxJobs
    /\ \E callEvent \in JobEvents(jCall) :
        jOps' = jOps \cup {[op |-> "adhoc", timestamp |-> callEvent.timestamp,
                            callEvent |-> Some(callEvent),
                            prevCallHistory |-> jStore.db]}
    /\ jSubmitted' = jSubmitted + 1
    /\ jLast' = JobStep("adhocReads", jStore.db, FALSE)
    /\ UNCHANGED <<jCall, jStart, jStore, jQueue, jJob, jDone>>
    /\ UNCHANGED <<tvars, rvars, svars, ovars>>

\* Mutant of AdhocSaves: a result equal to the record read is saved again.
AdhocSavesAlways(prevCallHistory, r) == ~r.threw

\* Whether updateLocalAdhocCallHistory saves the outcome r of its transition:
\* not when it threw, nor when the result is the record it read.
AdhocSaves(prevCallHistory, r) ==
    /\ ~r.threw
    /\ ~(prevCallHistory # None /\ prevCallHistory = r.value)

\* The store after updateLocalAdhocCallHistory went on with the record it read.
AdhocSaved(store, prevCallHistory, r) ==
    IF r.threw THEN store
    ELSE IF AdhocSaves(prevCallHistory, r) THEN saveAdhocCallHistory(store, r.value[1])
    ELSE [store EXCEPT !.projection =
                IF r.value[1].status = AdhocCallStatus.Deleted THEN None ELSE r.value]

AdhocEnds(o, r) ==
    /\ jStore' = AdhocSaved(jStore, o.prevCallHistory, r)
    /\ jOps' = jOps \ {o}
    /\ jDone' = Append(jDone, o.callEvent[1])
    /\ jLast' = [JobStep("adhocWrites", o.prevCallHistory,
                          AdhocSaves(o.prevCallHistory, r))
                    EXCEPT !.returned = r.value]
    /\ UNCHANGED <<jCall, jStart, jQueue, jJob, jSubmitted>>
    /\ UNCHANGED <<tvars, rvars, svars, ovars>>

\* updateLocalAdhocCallHistory transitions the record it read and saves the result.
adhocWrites ==
    \E o \in jOps :
        /\ o.op = "adhoc"
        /\ AdhocEnds(o, transitionCallHistory(o.prevCallHistory, o.callEvent[1]))

JNext ==
    \/ queueJob
    \/ jobReads
    \/ jobWrites
    \/ timestampReads
    \/ timestampWrites
    \/ adhocReads
    \/ adhocWrites

SpecJobs == JInit /\ [][JNext]_vars

\* ---------------------------------------------------------------- claims
\* What the formulas below read of the last reconciled event.
EventOps == {"local", "remote", "adhoc"}
DeleteEvents == {LocalCallEvent.Delete, RemoteCallEvent.Delete}
Greater(a, b) == IF a > b THEN a ELSE b
Reconciled == last.op \in EventOps
HadPrior == last.prior # None
Prior == last.prior[1]
LastEvent == last.event[1]
Stored == db[1]

IdentityOf(r) ==
    [callId |-> r.callId, peerId |-> r.peerId, direction |-> r.direction,
     type |-> r.type, mode |-> r.mode]

\* A status that, once reached, is kept: Accepted (direct, group), Joined (adhoc).
IsSticky(h) ==
    \/ h.mode \in {CallMode.Direct, CallMode.Group} /\ h.status = CallStatusValue.Accepted
    \/ h.mode = CallMode.Adhoc /\ h.status = AdhocCallStatus.Joined

TransientStatuses ==
    {CallStatusValue.Pending, CallStatusValue.Missed, CallStatusValue.Ringing,
     CallStatusValue.GenericGroupCall, CallStatusValue.OutgoingRing}

\* C1: deletion is absorbing.  Whenever an event of any kind and timestamp is
\* reconciled against a record whose status is Deleted, the record stored
\* afterwards is still Deleted and has the timestamp it had, and the
\* transition does not throw when the event's identity fields pass the
\* assertions.  Every step from a Deleted record leads to the same Deleted
\* record, so this holds after any sequence of events.
C1_DeletionIsAbsorbing ==
    (Reconciled /\ HadPrior /\ Prior.status = CallStatusValue.Deleted) =>
        /\ db # None
        /\ Stored.status = CallStatusValue.Deleted
        /\ Stored.timestamp = Prior.timestamp
        /\ FailedAssertion(last.prior, LastEvent) = "" => ~last.threw

\* C1 witness: a remote Accepted with a later timestamp was reconciled against
\* a Deleted adhoc record and returned.
C1_Witness ==
    /\ last.op = "remote" /\ HadPrior /\ ~last.threw
    /\ Prior.status = CallStatusValue.Deleted
    /\ Prior.mode = CallMode.Adhoc
    /\ LastEvent.event = RemoteCallEvent.Accepted
    /\ LastEvent.timestamp > Prior.timestamp

\* C2: stickiness.  Whenever a non-delete event (local or remote, either
\* direction) is reconciled against a record whose status is Direct Accepted,
\* Group Accepted or Adhoc Joined, the stored status is unchanged.
C2_Stickiness ==
    (Reconciled /\ HadPrior /\ IsSticky(Prior) /\ LastEvent.event \notin DeleteEvents) =>
        /\ db # None
        /\ Stored.status = Prior.status

\* C2 witness: a local Missed was reconciled against an Accepted group record
\* and returned.
C2_Witness ==
    /\ last.op = "local" /\ HadPrior /\ ~last.threw
    /\ Prior.mode = CallMode.Group
    /\ Prior.status = GroupCallStatus.Accepted
    /\ LastEvent.event = LocalCallEvent.Missed

\* C3: idempotence of replay.  For every prior record (or none) and every
\* event on which the transition succeeds, applying the same event to the
\* result returns the result again: same status, timestamp and identity fields.
C3_ReplayIsIdempotent ==
    tPhase = "replayed" => tReplay = tResult

\* C4: identity immutability.  When a prior record exists and the event differs
\* from it in callId, peerId, direction, type or mode, transitionCallHistory
\* throws an assertion and returns no record; and every record it returns has
\* the prior record's callId, peerId, direction, type and mode.
C4_IdentityImmutable ==
    (tPhase # "input" /\ tHistory # None) =>
        /\ IdentityOf(tHistory[1]) # IdentityOf(tEvent[1]) =>
              /\ tResult.threw
              /\ tResult.value = None
              /\ tResult.error \in {"callId must be same", "peerId must be same",
                                     "ringerId must be same if it exists",
                                     "direction must be same", "type must be same",
                                     "mode must be same"}
        /\ ~tResult.threw => IdentityOf(tResult.value[1]) = IdentityOf(tHistory[1])

\* C4 witness: an event that differs from the prior record in its direction
\* only was refused.
C4_Witness ==
    /\ tPhase = "done" /\ tHistory # None
    /\ tResult.threw
    /\ tEvent[1].direction # tHistory[1].direction
    /\ [IdentityOf(tEvent[1]) EXCEPT !.direction = tHistory[1].direction]
          = IdentityOf(tHistory[1])
    /\ tEvent[1].ringerId = NullId

\* C5 as stated: once a record holds a ringerId, every later successful
\* transition, also of an event without ringerId, stores a record with that
\* ringerId; and a record without ringerId takes the ringerId of a later event
\* that has one.
C5_RingerIdNeverChanges ==
    (Reconciled /\ HadPrior) =>
        /\ (Prior.ringerId # NullId /\ ~last.threw) =>
              Stored.ringerId = Prior.ringerId
        /\ (Prior.ringerId = NullId /\ LastEvent.ringerId # NullId
              /\ IdentityOf(Prior) = IdentityOf(LastEvent)
              /\ ~IsThrown(last.error)) =>
              (~last.threw /\ Stored.ringerId = LastEvent.ringerId)

\* C6 as stated: a remote NotAccepted for a group call throws whatever the
\* prior record, and nothing is written.
C6_GroupNotAcceptedAlwaysThrows ==
    (last.op = "remote" /\ LastEvent.mode = CallMode.Group
        /\ LastEvent.event = RemoteCallEvent.NotAccepted) =>
        (last.threw /\ db = last.prior)

\* C6 amended: a remote NotAccepted for a group call throws the group error,
\* and the store and the sync queue are left as they were, when there is no
\* prior record or its status is neither Accepted nor Deleted; against an
\* Accepted or Deleted record it returns that status and timestamp.
C6_GroupNotAcceptedThrowsUnlessSettled ==
    (last.op = "remote" /\ LastEvent.mode = CallMode.Group
        /\ LastEvent.event = RemoteCallEvent.NotAccepted) =>
        IF HadPrior /\ Prior.status \in {GroupCallStatus.Accepted, GroupCallStatus.Deleted}
        THEN /\ ~last.threw
             /\ Stored.status = Prior.status
             /\ Stored.timestamp = Prior.timestamp
        ELSE /\ last.threw
             /\ last.error = GroupNotAcceptedError
             /\ db = last.prior
             /\ ~last.enqueued

\* C6 witness: a remote NotAccepted was refused against a Ringing group record.
C6_Witness ==
    /\ last.op = "remote" /\ HadPrior /\ last.threw
    /\ LastEvent.mode = CallMode.Group
    /\ LastEvent.event = RemoteCallEvent.NotAccepted
    /\ Prior.status = GroupCallStatus.Ringing
    /\ db = last.prior

\* C7: monotonic timestamps.  A record created from no prior has the event's
\* timestamp; every later reconciled event leaves a timestamp that is the prior
\* timestamp or the greater of prior and event timestamp, so never a smaller one.
C7_MonotonicTimestamp ==
    Reconciled =>
        /\ (~HadPrior /\ ~last.threw) => Stored.timestamp = LastEvent.timestamp
        /\ HadPrior =>
              /\ db # None
              /\ Stored.timestamp \in
                    {Prior.timestamp, Greater(Prior.timestamp, LastEvent.timestamp)}
              /\ Stored.timestamp >= Prior.timestamp

\* C7 witness: a local event with an earlier timestamp was reconciled against a
\* Pending direct record and returned.
C7_Witness ==
    /\ last.op = "local" /\ HadPrior /\ ~last.threw
    /\ Prior.status = DirectCallStatus.Pending
    /\ Prior.mode = CallMode.Direct
    /\ LastEvent.timestamp < Prior.timestamp

\* C8: timestamps under transient states.  When the prior status is Pending,
\* Missed, Ringing, GenericGroupCall or OutgoingRing, transitionTimestamp is the
\* greater of prior and event timestamp for every event, local or remote,
\* delete included, and that is the timestamp of the record returned.
C8_TransientTimestampIsMax ==
    (tPhase # "input" /\ tHistory # None /\ tHistory[1].status \in TransientStatuses) =>
        LET latest == Greater(tHistory[1].timestamp, tEvent[1].timestamp)
        IN  /\ transitionTimestamp(tHistory, tEvent[1]) = latest
            /\ ~tResult.threw => tResult.value[1].timestamp = latest

\* C8 witness: a remote Delete with an earlier timestamp was applied to an
\* OutgoingRing group record and returned.
C8_Witness ==
    /\ tPhase = "done" /\ tHistory # None /\ ~tResult.threw
    /\ tHistory[1].status = GroupCallStatus.OutgoingRing
    /\ tEvent[1].event = RemoteCallEvent.Delete
    /\ tEvent[1].timestamp < tHistory[1].timestamp

NothingInFlight == \A d \in Devices : sNet[d] = {}
StatusOn(d) == IF sDb[d] = None THEN NullId ELSE sDb[d][1].status

C10_RemoteNeverEchoed ==
    [][last'.op = "remote" => syncQueue' = syncQueue]_vars

\* C10 witness: a remote Accepted was reconciled into a status that has a wire
\* event, and the sync queue is empty.
C10_Witness ==
    /\ last.op = "remote" /\ ~last.threw
    /\ shouldSyncStatus(Stored.status)
    /\ syncQueue = <<>>

LocalOps == {"local", "adhoc"}
NewestJob == syncQueue[Len(syncQueue)]

\* The wire event the specification gives each synced status.
WireEventOf(status) ==
    CASE status = CallStatusValue.Accepted -> "ACCEPTED"
      [] status = CallStatusValue.Declined -> "NOT_ACCEPTED"
      [] status = CallStatusValue.Deleted -> "DELETE"
      [] status = CallStatusValue.JoinedAdhoc -> "ACCEPTED"
      [] OTHER -> NullId

\* C11: after a local event a call-event sync job is enqueued only when the
\* stored status is Accepted, Declined, Deleted or adhoc Joined, and the job
\* carries ACCEPTED, NOT_ACCEPTED, DELETE or ACCEPTED for it; when the stored
\* status is Pending, Missed, Ringing, GenericGroupCall or OutgoingRing the
\* sync is skipped; and the assertion of getProtoForCallHistory never fails.
C11_SyncOnlySyncableStatus ==
    last.op \in LocalOps =>
        /\ last.sync # "asserted"
        /\ last.enqueued =>
              /\ db # None
              /\ WireEventOf(Stored.status) # NullId
              /\ NewestJob.type = "callEventSync"
              /\ NewestJob.proto.event = WireEventOf(Stored.status)
        /\ (~last.threw /\ Stored.status \in TransientStatuses) =>
              (~last.enqueued /\ last.sync = "skipped")

\* C11 witness: a local event left the record Declined and a NOT_ACCEPTED sync
\* job was enqueued.
C11_Witness ==
    /\ last.op = "local" /\ last.enqueued
    /\ Stored.status = CallStatusValue.Declined
    /\ NewestJob.proto.event = "NOT_ACCEPTED"

\* C12 as stated: a local event whose reconciliation leaves the record equal to
\* the prior record enqueues no sync job.
C12_NoSyncWithoutChange ==
    (last.op \in LocalOps /\ ~last.threw /\ db = last.prior) => ~last.enqueued

\* C12 amended: a sync job is enqueued after exactly those local events whose
\* transition succeeds, whose resulting status has a wire event and whose
\* enqueue does not fail, whether or not the record changed.
C12_SyncAfterEverySyncableResult ==
    last.op \in LocalOps =>
        (last.enqueued <=>
            /\ ~last.threw
            /\ WireEventOf(Stored.status) # NullId
            /\ last.sync # "failed")

\* C12 witness: a local event on a Deleted record of a direct call left it as
\* it was, and a DELETE sync job was enqueued.
C12_Witness ==
    /\ last.op = "local" /\ ~last.threw /\ HadPrior
    /\ db = last.prior
    /\ Stored.status = CallStatusValue.Deleted
    /\ Stored.mode = CallMode.Direct
    /\ last.enqueued
    /\ NewestJob.proto.event = "DELETE"

\* C13: when the transition throws for an event, the step that reconciles it
\* leaves the stored record (absent or present), the display messages, the UI
\* projection, the counters and the sync queue as they were, notifies nobody
\* and does not reject.
C13_ThrowDropsEvent ==
    [][(last'.op \in EventOps /\ last'.threw) =>
          /\ db' = db
          /\ messages' = messages
          /\ projection' = projection
          /\ counters' = counters
          /\ syncQueue' = syncQueue
          /\ last'.notified = "none"
          /\ last'.sync = "none"
          /\ ~last'.rejected]_vars

\* C13 witness: a remote NotAccepted was refused for a group call that has a
\* stored record and a display message.
C13_Witness ==
    /\ last.op = "remote" /\ last.threw
    /\ last.error = GroupNotAcceptedError
    /\ db # None /\ db = last.prior
    /\ messages # {}

MessageIds(msgs) == {m.id : m \in msgs}
MessagesCounted(c) == c.messageCount + c.sentMessageCount

QueuedModes == {CallMode.Direct, CallMode.Group}

\* A step that saved a direct or group record that is not Deleted: a
\* reconciliation that did not throw, or a timestamp update that wrote.
SavedNotDeleted ==
    /\ \/ last'.op \in {"local", "remote"} /\ ~last'.threw
       \/ last'.op = "timestamp" /\ db' # db
    /\ db'[1].mode \in QueuedModes
    /\ db'[1].status # CallStatusValue.Deleted

C18_OneMessagePerCall ==
    [][/\ Cardinality(messages') <= 1
       /\ SavedNotDeleted =>
            /\ Cardinality(messages') = 1
            /\ messages = {} =>
                  /\ MessageIds(messages') = {counters.generated + 1}
                  /\ counters'.generated = counters.generated + 1
                  /\ MessagesCounted(counters') = MessagesCounted(counters) + 1
            /\ messages # {} =>
                  /\ MessageIds(messages') = MessageIds(messages)
                  /\ counters' = counters]_vars

\* C18 witness: a later reconciliation changed the record of a call whose
\* display message an earlier one created; there is one message, counted once.
C18_Witness ==
    /\ Reconciled /\ ~last.threw /\ HadPrior
    /\ LastEvent.mode \in QueuedModes
    /\ Stored.status # Prior.status
    /\ MessageIds(messages) = {1}
    /\ counters.generated = 1
    /\ MessagesCounted(counters) = 1

\* The records the specification calls unseen.
UnseenBySpec(h) ==
    /\ h.direction = CallDirection.Incoming
    /\ \/ h.mode = CallMode.Direct
          /\ h.status \in {CallStatusValue.Missed, CallStatusValue.Pending}
       \/ h.mode = CallMode.Group
          /\ h.status \in {CallStatusValue.Ringing, CallStatusValue.GenericGroupCall,
                           CallStatusValue.Missed}

BulkOps == {"clear", "markRead"}
LatestCallOf(op) == op.event[1].latestCall

\* C20: a bulk operation that does not fail appends exactly one job to the sync
\* queue and a failed one appends none: clearCallHistoryDataAndSync a CLEAR
\* call-log event, markAllCallHistoryReadAndSync a call-log event of type
\* MARKED_AS_READ_IN_CONVERSATION when inConversation and MARKED_AS_READ
\* otherwise, with the latest call's timestamp, peerId and callId.
C20_BulkOperationsSync ==
    [][last'.op \in BulkOps =>
          IF last'.sync # "enqueued" THEN syncQueue' = syncQueue
          ELSE /\ Len(syncQueue') = Len(syncQueue) + 1
               /\ SubSeq(syncQueue', 1, Len(syncQueue)) = syncQueue
               /\ LET job == syncQueue'[Len(syncQueue')]
                  IN  /\ job.type = "callLogEventSync"
                      /\ job.proto.type =
                            IF last'.op = "clear" THEN "CLEAR"
                            ELSE IF last'.event[1].inConversation
                            THEN "MARKED_AS_READ_IN_CONVERSATION"
                            ELSE "MARKED_AS_READ"
                      /\ job.proto.timestamp = LatestCallOf(last').timestamp
                      /\ job.proto.peerId = LatestCallOf(last').peerId
                      /\ job.proto.callId = LatestCallOf(last').callId]_vars

\* C20 witness: markAllCallHistoryReadAndSync ran for a conversation and its
\* job is in the queue.
C20_Witness ==
    /\ last.op = "markRead" /\ last.sync = "enqueued"
    /\ last.event[1].inConversation
    /\ NewestJob.proto.type = "MARKED_AS_READ_IN_CONVERSATION"
    /\ NewestJob.proto.callId = TheCallId

WithoutTimestamp(h) == IF h = None THEN None ELSE Some([h[1] EXCEPT !.timestamp = 0])
StatusOf(h) == IF h = None THEN NullId ELSE h[1].status

\* C14: the jobs of a direct or group call's conversation run one at a time in
\* the order they were handed in, so the persisted record is what applying
\* transitionCallHistory to the reconciled events in that order gives, failed
\* transitions skipped (the timestamp, which
\* updateLocalGroupCallHistoryTimestamp lowers, set aside).
C14_RecordIsEventsInOrder ==
    ModeOfType(jCall.type) \in QueuedModes =>
        WithoutTimestamp(jStore.db) = WithoutTimestamp(AppliedInOrder(jStart, jDone))

\* C15: no operation on a direct or group call writes a record derived from a
\* stale read: whatever writes the record had read the record it replaces.
C15_NoStaleWrite ==
    (ModeOfType(jCall.type) \in QueuedModes /\ jLast.wrote) => jLast.read = jLast.before

\* C16: when the overlapping reconciliations of an adhoc call have ended, the
\* persisted record is what reconciling their events one after the other in
\* some order gives; and a Deleted or Joined record is never replaced by a
\* Pending one, nor a Deleted record by any other.
C16_AdhocAsIfSequential ==
    /\ [](ModeOfType(jCall.type) = CallMode.Adhoc /\ jOps = {} =>
            jStore.db \in AppliedInSomeOrder(jStart, jDone, 1..Len(jDone)))
    /\ [][ModeOfType(jCall.type) = CallMode.Adhoc =>
            /\ StatusOf(jStore.db) \in {AdhocCallStatus.Deleted, AdhocCallStatus.Joined}
                  => StatusOf(jStore'.db) # AdhocCallStatus.Pending
            /\ StatusOf(jStore.db) = AdhocCallStatus.Deleted
                  => StatusOf(jStore'.db) = AdhocCallStatus.Deleted]_vars

\* ---------------------------------------------------------------- C21
\* C21: a sync payload whose type, direction or event is not a known value is
\* refused with a TypeError, no CallEventDetails is produced and nothing is
\* handed to the transition engine; a payload that is accepted yields an event
\* of the remote vocabulary, a null ringerId, and the mode Group for GROUP_CALL,
\* Adhoc for AD_HOC_CALL and Direct for AUDIO_CALL and VIDEO_CALL.
C21_UnknownWireValueRejected ==
    tPhase \in {"decoded", "applied"} =>
        LET proto == tEvent[1] IN
        IF \/ proto.type \notin KnownWireTypes
           \/ proto.direction \notin KnownWireDirections
           \/ proto.event \notin KnownWireEvents
        THEN /\ tResult.threw
             /\ tResult.error \in {UnknownCall(f) : f \in {"type", "direction", "event"}}
             /\ tResult.value = None
             /\ tPhase = "decoded"
             /\ tReplay = NoResult
        ELSE /\ ~tResult.threw
             /\ tResult.value # None
             /\ tResult.value[1].event \in RemoteEvents
             /\ tResult.value[1].ringerId = NullId
             /\ tResult.value[1].mode =
                    (CASE proto.type = "GROUP_CALL" -> CallMode.Group
                       [] proto.type = "AD_HOC_CALL" -> CallMode.Adhoc
                       [] proto.type \in {"AUDIO_CALL", "VIDEO_CALL"} -> CallMode.Direct)

\* C21 witness: a payload with a known direction and event and an unknown type
\* was refused.
C21_Witness ==
    /\ tPhase = "decoded"
    /\ tEvent[1].type = UnknownWireValue
    /\ tEvent[1].direction = "INCOMING"
    /\ tEvent[1].event = "ACCEPTED"
    /\ tResult.threw
    /\ tResult.error = UnknownCall("type")


\* ---------------------------------------------------------------- C22
\* C22: when building or enqueueing the sync job fails after a local event, the
\* failure is swallowed: the operation ends without an error, the record the
\* event persisted is the transitioned one, and the sync queue is left as it was
\* (nothing is enqueued, then or by a retry).
C22_SyncFailureSwallowed ==
    [][(last'.op \in LocalOps /\ last'.sync \in {"failed", "asserted"}) =>
          /\ ~last'.threw
          /\ last'.error = ""
          /\ ~transitionCallHistory(db, last'.event[1]).threw
          /\ db' = transitionCallHistory(db, last'.event[1]).value
          /\ syncQueue' = syncQueue
          /\ ~last'.enqueued]_vars

\* C22 witness: a local event made a direct call Accepted, the record was
\* persisted, and the enqueueing of its sync job failed.
C22_Witness ==
    /\ last.op = "local"
    /\ last.sync = "failed"
    /\ last.prior = None
    /\ db # None
    /\ db[1].status = DirectCallStatus.Accepted
    /\ db[1].mode = CallMode.Direct
    /\ syncQueue = <<>>

\* ------------------------------------------- the engine's tables, C23-C30
\* The call of transitionCallHistory made in SpecTransition: its event, the
\* status of its prior record (NullId when there is none), whether the event
\* passes the identity assertions, and the status the function of the event's
\* mode computes.
EngineApplied == tPhase \in {"done", "replayed"}
EngineEvent == tEvent[1]
EnginePriorStatus == IF tHistory = None THEN NullId ELSE tHistory[1].status
EngineSameCall == FailedAssertion(tHistory, tEvent[1]) = ""
EngineStatus ==
    CASE tEvent[1].mode = CallMode.Direct ->
            transitionDirectCallStatus(EnginePriorStatus, tEvent[1].event, tEvent[1].direction)
      [] tEvent[1].mode = CallMode.Group ->
            transitionGroupCallStatus(EnginePriorStatus, tEvent[1].event, tEvent[1].direction)
      [] tEvent[1].mode = CallMode.Adhoc ->
            transitionAdhocCallStatus(EnginePriorStatus, tEvent[1].event, tEvent[1].direction)

\* C23: in every mode a Delete event, local or remote, gives the status Deleted
\* whatever the prior status (none included), and a delete event or any event
\* on a Deleted record raises no error, remote NotAccepted on a Deleted group
\* record included: the status function returns Deleted, and the transition of
\* an event for the same call returns a Deleted record.
C23_DeleteCheckedFirst ==
    (EngineApplied /\ (EngineEvent.event \in DeleteEvents
                        \/ EnginePriorStatus = CallStatusValue.Deleted)) =>
        /\ EngineStatus = CallStatusValue.Deleted
        /\ EngineSameCall =>
            /\ ~tResult.threw
            /\ tResult.value[1].status = CallStatusValue.Deleted

\* C23 witness: a remote NotAccepted was applied to a Deleted group record.
C23_Witness ==
    /\ tPhase = "done"
    /\ EngineSameCall
    /\ tHistory # None
    /\ tHistory[1].mode = CallMode.Group
    /\ tHistory[1].status = GroupCallStatus.Deleted
    /\ tEvent[1].event = RemoteCallEvent.NotAccepted
    /\ ~tResult.threw
    /\ tResult.value[1].status = GroupCallStatus.Deleted

\* The status the direct table of the specification gives a non-delete event
\* on a prior status that is not Deleted.
DirectTable(status, event, direction) ==
    IF event \in {LocalCallEvent.Accepted, RemoteCallEvent.Accepted}
    THEN DirectCallStatus.Accepted
    ELSE IF status = DirectCallStatus.Accepted THEN DirectCallStatus.Accepted
    ELSE CASE event = RemoteCallEvent.NotAccepted ->
                (IF status = DirectCallStatus.Declined
                 THEN DirectCallStatus.Declined ELSE DirectCallStatus.Missed)
           [] event = LocalCallEvent.Missed -> DirectCallStatus.Missed
           [] event = LocalCallEvent.Declined -> DirectCallStatus.Declined
           [] event = LocalCallEvent.Hangup ->
                (IF direction = CallDirection.Incoming
                 THEN DirectCallStatus.Declined ELSE DirectCallStatus.Missed)
           [] event = LocalCallEvent.RemoteHangup ->
                (IF direction = CallDirection.Incoming
                 THEN DirectCallStatus.Missed ELSE DirectCallStatus.Declined)
           [] event \in {LocalCallEvent.Started, LocalCallEvent.Ringing} ->
                DirectCallStatus.Pending

\* C24: for a direct call, a non-delete event and a prior status that is not
\* Deleted, the new status is Accepted on a local or remote Accepted, otherwise
\* Accepted if the prior is Accepted, otherwise: remote NotAccepted gives
\* Declined if the prior is Declined and Missed if not, local Missed gives
\* Missed, local Declined gives Declined, local Hangup gives Declined when
\* incoming and Missed when outgoing, local RemoteHangup gives Missed when
\* incoming and Declined when outgoing, local Started and Ringing give Pending.
C24_DirectTable ==
    (/\ EngineApplied
     /\ EngineEvent.mode = CallMode.Direct
     /\ EngineEvent.event \notin DeleteEvents
     /\ EnginePriorStatus \in {NullId} \cup (Range(DirectCallStatus) \ {DirectCallStatus.Deleted})) =>
        LET expected == DirectTable(EnginePriorStatus, EngineEvent.event,
                                    EngineEvent.direction)
        IN  /\ EngineStatus = expected
            /\ EngineSameCall =>
                /\ ~tResult.threw
                /\ tResult.value[1].status = expected

\* C24 witness: a remote NotAccepted left a Declined direct call Declined.
C24_Witness ==
    /\ tPhase = "done"
    /\ EngineSameCall
    /\ tHistory # None
    /\ tHistory[1].mode = CallMode.Direct
    /\ tHistory[1].status = DirectCallStatus.Declined
    /\ tEvent[1].event = RemoteCallEvent.NotAccepted
    /\ ~tResult.threw
    /\ tResult.value[1].status = DirectCallStatus.Declined

\* Whether the call of SpecTransition is a group event on no record or on a
\* record of a group call.
EngineGroupCall ==
    /\ EngineApplied
    /\ EngineEvent.mode = CallMode.Group
    /\ tHistory # None => tHistory[1].mode = CallMode.Group

AcceptedEvents == {LocalCallEvent.Accepted, RemoteCallEvent.Accepted}

\* C25: for a group call an Accepted event gives Joined when there is no prior
\* record or the prior is GenericGroupCall, Accepted when the prior is Ringing,
\* Missed or Declined, and the prior status when it is Joined or OutgoingRing;
\* so a group record becomes Accepted only from Ringing, Missed or Declined, and
\* only by an Accepted event.
C25_GroupAcceptedTable ==
    EngineGroupCall =>
        /\ EngineEvent.event \in AcceptedEvents =>
            LET expected ==
                    CASE EnginePriorStatus \in {NullId, GroupCallStatus.GenericGroupCall} ->
                            GroupCallStatus.Joined
                      [] EnginePriorStatus \in {GroupCallStatus.Ringing,
                            GroupCallStatus.Missed, GroupCallStatus.Declined} ->
                            GroupCallStatus.Accepted
                      [] EnginePriorStatus \in {GroupCallStatus.Joined,
                            GroupCallStatus.OutgoingRing} -> EnginePriorStatus
                      [] OTHER -> EngineStatus
            IN  /\ EngineStatus = expected
                /\ EngineSameCall =>
                    /\ ~tResult.threw
                    /\ tResult.value[1].status = expected
        /\ (EngineStatus = GroupCallStatus.Accepted
                /\ EnginePriorStatus # GroupCallStatus.Accepted) =>
            /\ EngineEvent.event \in AcceptedEvents
            /\ EnginePriorStatus \in {GroupCallStatus.Ringing, GroupCallStatus.Missed,
                                      GroupCallStatus.Declined}

\* C25 witness: a remote Accepted made a Missed group call Accepted.
C25_Witness ==
    /\ tPhase = "done"
    /\ EngineGroupCall
    /\ EngineSameCall
    /\ EnginePriorStatus = GroupCallStatus.Missed
    /\ tEvent[1].event = RemoteCallEvent.Accepted
    /\ ~tResult.threw
    /\ tResult.value[1].status = GroupCallStatus.Accepted

GroupLocalEvents ==
    {LocalCallEvent.Started, LocalCallEvent.Ringing, LocalCallEvent.Missed,
     LocalCallEvent.Declined, LocalCallEvent.Hangup, LocalCallEvent.RemoteHangup}

\* The status the group table of the specification gives the local events
\* Started, Ringing, Missed, Declined, Hangup and RemoteHangup.
GroupLocalTable(event, direction) ==
    CASE event = LocalCallEvent.Started -> GroupCallStatus.GenericGroupCall
      [] event = LocalCallEvent.Ringing -> GroupCallStatus.Ringing
      [] event = LocalCallEvent.Missed -> GroupCallStatus.Missed
      [] event = LocalCallEvent.Declined -> GroupCallStatus.Declined
      [] event = LocalCallEvent.Hangup ->
            (IF direction = CallDirection.Incoming
             THEN GroupCallStatus.Declined ELSE GroupCallStatus.Missed)
      [] event = LocalCallEvent.RemoteHangup ->
            (IF direction = CallDirection.Incoming
             THEN GroupCallStatus.Missed ELSE GroupCallStatus.Declined)

\* C26: for a group call whose prior status is neither Accepted nor Deleted, a
\* local Started gives GenericGroupCall, Ringing gives Ringing, Missed gives
\* Missed, Declined gives Declined, Hangup gives Declined when incoming and
\* Missed when outgoing, RemoteHangup gives Missed when incoming and Declined
\* when outgoing, whatever the prior status is.
C26_GroupLocalTable ==
    (/\ EngineGroupCall
     /\ EngineEvent.event \in GroupLocalEvents
     /\ EnginePriorStatus \notin {GroupCallStatus.Accepted, GroupCallStatus.Deleted}) =>
        LET expected == GroupLocalTable(EngineEvent.event, EngineEvent.direction)
        IN  /\ EngineStatus = expected
            /\ EngineSameCall =>
                /\ ~tResult.threw
                /\ tResult.value[1].status = expected

\* C26 witness: a local Missed made a Joined group call Missed.
C26_Witness ==
    /\ tPhase = "done"
    /\ EngineGroupCall
    /\ EngineSameCall
    /\ EnginePriorStatus = GroupCallStatus.Joined
    /\ tEvent[1].event = LocalCallEvent.Missed
    /\ ~tResult.threw
    /\ tResult.value[1].status = GroupCallStatus.Missed

\* Whether the call of SpecTransition is an adhoc event on no record or on a
\* record of an adhoc call.
EngineAdhocCall ==
    /\ EngineApplied
    /\ EngineEvent.mode = CallMode.Adhoc
    /\ tHistory # None => tHistory[1].mode = CallMode.Adhoc

\* C27: for an adhoc call, a non-delete event and a prior status that is not
\* Deleted, the new status is Joined on a local or remote Accepted, stays Joined
\* when the prior is Joined, and is Pending for every other event (remote
\* NotAccepted, local Missed, Declined, Hangup, RemoteHangup, Started, Ringing)
\* when the prior is none or Pending; no adhoc input raises an error.
C27_AdhocTable ==
    EngineAdhocCall =>
        /\ ~IsThrown(EngineStatus)
        /\ EngineSameCall => ~tResult.threw
        /\ (EngineEvent.event \notin DeleteEvents
                /\ EnginePriorStatus # AdhocCallStatus.Deleted) =>
            LET expected ==
                    IF EngineEvent.event \in AcceptedEvents THEN AdhocCallStatus.Joined
                    ELSE IF EnginePriorStatus = AdhocCallStatus.Joined
                    THEN AdhocCallStatus.Joined
                    ELSE AdhocCallStatus.Pending
            IN  /\ EnginePriorStatus \in {NullId, AdhocCallStatus.Pending,
                                          AdhocCallStatus.Joined}
                /\ EngineStatus = expected
                /\ EngineSameCall => tResult.value[1].status = expected

\* C27 witness: a remote NotAccepted was applied to an adhoc call that had no
\* record, and made it Pending.
C27_Witness ==
    /\ tPhase = "done"
    /\ EngineAdhocCall
    /\ tHistory = None
    /\ tEvent[1].event = RemoteCallEvent.NotAccepted
    /\ ~tResult.threw
    /\ tResult.value[1].status = AdhocCallStatus.Pending

\* Whether the prior record of the call of SpecTransition has an accepted
\* status: Accepted (direct, group), Joined (group, adhoc).
EnginePriorAccepted ==
    /\ tHistory # None
    /\ \/ IsSticky(tHistory[1])
       \/ tHistory[1].mode = CallMode.Group /\ tHistory[1].status = GroupCallStatus.Joined

\* C28: when the prior status is Direct Accepted, Group Accepted, Group Joined
\* or Adhoc Joined, the new timestamp is the greater of event and prior
\* timestamp if the event is a remote Accepted, and the prior timestamp for
\* every other event (local Accepted, local Missed, delete events included).
C28_AcceptedTimestamp ==
    (EngineApplied /\ EnginePriorAccepted) =>
        LET expected ==
                IF EngineEvent.event = RemoteCallEvent.Accepted
                THEN Greater(EngineEvent.timestamp, tHistory[1].timestamp)
                ELSE tHistory[1].timestamp
        IN  /\ transitionTimestamp(tHistory, EngineEvent) = expected
            /\ ~tResult.threw => tResult.value[1].timestamp = expected

\* C28 witness: a remote Accepted with a later timestamp was applied to an
\* Accepted group record, which took the event's timestamp.
C28_Witness ==
    /\ tPhase = "done"
    /\ EnginePriorAccepted
    /\ tHistory[1].mode = CallMode.Group
    /\ tHistory[1].status = GroupCallStatus.Accepted
    /\ tEvent[1].event = RemoteCallEvent.Accepted
    /\ tEvent[1].timestamp > tHistory[1].timestamp
    /\ ~tResult.threw
    /\ tResult.value[1].timestamp = tEvent[1].timestamp

\* Whether the prior record of the call of SpecTransition is a Declined direct
\* or group record.
EnginePriorDeclined ==
    /\ tHistory # None
    /\ tHistory[1].mode \in {CallMode.Direct, CallMode.Group}
    /\ tHistory[1].status = CallStatusValue.Declined

C30_JoinedNeverRegresses ==
    [][(/\ db # None
        /\ db[1].mode = CallMode.Group
        /\ db[1].status = GroupCallStatus.Joined
        /\ last'.op \in EventOps
        /\ last'.event[1].event \in GroupLocalEvents) =>
          /\ db' # None
          /\ db'[1].status \notin {GroupCallStatus.GenericGroupCall, GroupCallStatus.Ringing,
                                   GroupCallStatus.Missed, GroupCallStatus.Declined}]_vars

\* ---------------------------------------------------------------- C31
\* C31: the state machine is closed.  For every mode, every prior status of that
\* mode or none, every local and remote event and both directions, the status
\* function returns a status of the same mode or raises the group NotAccepted
\* error (only for a remote NotAccepted on a group call); the missing-case
\* failures of the status functions and of transitionTimestamp are never
\* reached; and a returned record holds a status of its own mode.
C31_ClosedStateMachine ==
    (EngineApplied /\ (tHistory # None => tHistory[1].mode = EngineEvent.mode)) =>
        /\ EngineStatus \in StatusesOfMode(EngineEvent.mode) \cup {GroupNotAcceptedError}
        /\ EngineStatus = GroupNotAcceptedError =>
            /\ EngineEvent.mode = CallMode.Group
            /\ EngineEvent.event = RemoteCallEvent.NotAccepted
        /\ transitionTimestamp(tHistory, EngineEvent) >= 0
        /\ tResult.threw => tResult.error # MissingCaseError
        /\ ~tResult.threw =>
            /\ tResult.value[1].status \in StatusesOfMode(tResult.value[1].mode)
            /\ tResult.value[1].mode = CallMode.Direct =>
                tResult.value[1].status \in Range(DirectCallStatus)

\* C31 witness: a remote NotAccepted on a direct call with a Pending record
\* returned a direct status, Missed.
C31_Witness ==
    /\ tPhase = "done"
    /\ EngineSameCall
    /\ tHistory # None
    /\ tHistory[1].mode = CallMode.Direct
    /\ tHistory[1].status = DirectCallStatus.Pending
    /\ tEvent[1].event = RemoteCallEvent.NotAccepted
    /\ ~tResult.threw
    /\ tResult.value[1].mode = CallMode.Direct
    /\ tResult.value[1].status = DirectCallStatus.Missed

\* ---------------------------------------------------------------- C32
\* The ringer a builder of call details resolves: the one it is given for a
\* group call, none for an adhoc call.
ResolvedRinger == IF tEvent[1].kind = "adhoc" THEN NullId ELSE tEvent[1].ringerId

\* C32 as stated: for group and adhoc calls the direction is Outgoing exactly
\* when the resolved ringer is the local user and Incoming otherwise, and when
\* the ringer is not resolved to a known contact an assertion fails and no call
\* details are produced.
C32_DirectionFromResolvedRinger ==
    (tPhase = "built" /\ tEvent[1].kind \in {"group", "adhoc"}) =>
        IF ResolvedRinger \in KnownContacts
        THEN /\ ~tResult.threw
             /\ tResult.value[1].direction =
                    (IF ResolvedRinger = OurAci THEN CallDirection.Outgoing
                     ELSE CallDirection.Incoming)
        ELSE /\ tResult.threw
             /\ tResult.value = None

\* C32 amended: for a group call the direction is Outgoing exactly when the
\* ringer resolves to the local user and Incoming when it resolves to somebody
\* else, and an assertion fails, with no call details produced, when the ringer
\* does not resolve; for an adhoc call no ringer is resolved: the details always
\* have direction Incoming and a null ringerId.
C32_GroupDirectionFromRinger ==
    tPhase = "built" =>
        /\ tEvent[1].kind = "group" =>
            IF tEvent[1].ringerId \in KnownContacts
            THEN /\ ~tResult.threw
                 /\ tResult.value[1].ringerId = tEvent[1].ringerId
                 /\ tResult.value[1].direction =
                        (IF tEvent[1].ringerId = OurAci THEN CallDirection.Outgoing
                         ELSE CallDirection.Incoming)
            ELSE /\ tResult.threw
                 /\ tResult.error = MissingRinger
                 /\ tResult.value = None
        /\ tEvent[1].kind = "adhoc" =>
            /\ ~tResult.threw
            /\ tResult.value[1].ringerId = NullId
            /\ tResult.value[1].direction = CallDirection.Incoming

\* C32 witness: the details of a group call whose ringer is not a known
\* contact were asked for, and the assertion failed.
C32_Witness ==
    /\ tPhase = "built"
    /\ tEvent[1].kind = "group"
    /\ tEvent[1].ringerId = UnknownAci
    /\ tResult.threw
    /\ tResult.error = MissingRinger

\* ---------------------------------------------------------------- C33
\* C33: the bulk operations log and continue.  When the store operation of
\* clearCallHistoryDataAndSync or markAllCallHistoryReadAndSync fails, no sync
\* job is enqueued by that invocation; when the
\* enqueueing fails the queue is unchanged too; and in every case the operation
\* ends without an error for its caller.
C33_BulkLogAndContinue ==
    [][last'.op \in BulkOps =>
          /\ ~last'.threw
          /\ last'.error = ""
          /\ last'.sync \in {"dataFailed", "failed", "enqueued"}
          /\ last'.sync = "dataFailed" =>
                /\ syncQueue' = syncQueue
                /\ ~last'.enqueued
          /\ last'.sync = "failed" =>
                /\ syncQueue' = syncQueue
                /\ ~last'.enqueued]_vars

\* C33 witness: the store operation of clearCallHistoryDataAndSync failed for a
\* stored call that is not Deleted; nothing was enqueued and the call is kept.
C33_Witness ==
    /\ last.op = "clear"
    /\ last.sync = "dataFailed"
    /\ ~last.threw
    /\ syncQueue = <<>>
    /\ db = last.prior
    /\ db[1].status # CallStatusValue.Deleted

\* ---------------------------------------------------------------- C34
\* C34: the group status OutgoingRing is not reachable through the transition
\* engine.  No reconciled event, local or remote, and no other operation of the
\* module stores an OutgoingRing record unless the stored record was
\* OutgoingRing already; so from no record the status is never reached.
C34_OutgoingRingOnlyPreserved ==
    [][(db' # None /\ db'[1].status = GroupCallStatus.OutgoingRing) =>
          (db # None /\ db[1].status = GroupCallStatus.OutgoingRing)]_vars

\* C34 witness: a local Accepted was reconciled against a stored OutgoingRing
\* record, which is still OutgoingRing.
C34_Witness ==
    /\ last.op = "local" /\ HadPrior /\ ~last.threw
    /\ Prior.status = GroupCallStatus.OutgoingRing
    /\ LastEvent.event = LocalCallEvent.Accepted
    /\ db # None
    /\ db[1].status = GroupCallStatus.OutgoingRing

C36_AdhocSkipsUnchangedSave ==
    [][(/\ jLast'.op = "adhocWrites"
        /\ jLast'.read # None
        /\ LET r == transitionCallHistory(jLast'.read, jDone'[Len(jDone')])
           IN  ~r.threw /\ r.value = jLast'.read) =>
          /\ ~jLast'.wrote
          /\ jStore'.db = jStore.db
          /\ jStore'.messages = jStore.messages
          /\ jStore'.counters = jStore.counters
          /\ jStore'.projection =
                (IF jLast'.read[1].status = AdhocCallStatus.Deleted
                 THEN None ELSE jLast'.read)
          /\ jLast'.returned = jLast'.read]_vars

\* C36 witness: a local Missed was reconciled against a Joined adhoc record,
\* left it as it was and did not save it.
C36_Witness ==
    /\ jLast.op = "adhocWrites"
    /\ ~jLast.wrote
    /\ jLast.read # None
    /\ jLast.read[1].status = AdhocCallStatus.Joined
    /\ jLast.returned = jLast.read
    /\ jStore.db = jLast.read
    /\ jStore.projection = jLast.read
    /\ jDone[Len(jDone)].event = LocalCallEvent.Missed

\* ------------------------------------------ DeletesForMe: pending deletes
\* remove(item) awaits removeSyncTaskById(item.syncTaskId) and only then runs
\* deletes.delete(item.envelopeId): the call is made in the caller's step, the
\* map entry goes in the continuation.
removeSyncTaskById(removals, items) ==
    [item \in DeleteItems |->
        IF item \in items THEN removals[item] + 1 ELSE removals[item]]

deletesDeleteForgets(map, items) == map

deletesDelete(map, items) == map \ items

\* onDelete(item) up to its first await. The two target look-ups run before
\* deletes.set; a missing conversation and a thrown error both end in
\* remove(item), otherwise the job is handed to the conversation's queue and
\* dropped, and onDelete returns.
onDelete(item) ==
    /\ dOnDelete[item].at = "new"
    /\ \E conversation \in BOOLEAN, throws \in {"none", "target", "queueJob"} :
        LET registered == throws # "target"
            threw == throws = "target" \/ (conversation /\ throws = "queueJob")
            queued == conversation /\ ~threw
        IN  /\ deletes' = IF registered THEN deletes \cup {item} ELSE deletes
            /\ dSyncRemovals' =
                   IF queued THEN dSyncRemovals
                   ELSE removeSyncTaskById(dSyncRemovals, {item})
            /\ dOnDelete' =
                   [dOnDelete EXCEPT ![item] =
                       [at |-> IF queued THEN "returned" ELSE "removing",
                        conversation |-> registered /\ conversation,
                        threw |-> threw]]
            /\ dJob' = IF queued THEN [dJob EXCEPT ![item] = "queued"] ELSE dJob
    /\ UNCHANGED dForMessage
    /\ UNCHANGED <<tvars, rvars, svars, jvars, evars, pvars>>

\* The continuation of onDelete's remove(item).
onDeleteRemoved(item) ==
    /\ dOnDelete[item].at = "removing"
    /\ deletes' = deletesDelete(deletes, {item})
    /\ dOnDelete' = [dOnDelete EXCEPT ![item].at = "returned"]
    /\ UNCHANGED <<dSyncRemovals, dJob, dForMessage>>
    /\ UNCHANGED <<tvars, rvars, svars, jvars, evars, pvars>>

\* The queued job: deleteMessage or deleteAttachmentFromMessage reports
\* whether the target was found, or throws; on success remove(item) starts.
onDeleteJob(item) ==
    /\ dJob[item] = "queued"
    /\ \E result \in {"true", "false", "threw"} :
        /\ dJob' = [dJob EXCEPT ![item] =
                       CASE result = "true" -> "removing"
                         [] result = "false" -> "notFound"
                         [] OTHER -> "rejected"]
        /\ dSyncRemovals' =
               IF result = "true"
               THEN removeSyncTaskById(dSyncRemovals, {item})
               ELSE dSyncRemovals
    /\ UNCHANGED <<deletes, dOnDelete, dForMessage>>
    /\ UNCHANGED <<tvars, rvars, svars, jvars, evars, pvars>>

\* The continuation of the job's remove(item).
onDeleteJobRemoved(item) ==
    /\ dJob[item] = "removing"
    /\ deletes' = deletesDelete(deletes, {item})
    /\ dJob' = [dJob EXCEPT ![item] = "succeeded"]
    /\ UNCHANGED <<dSyncRemovals, dOnDelete, dForMessage>>
    /\ UNCHANGED <<tvars, rvars, svars, jvars, evars, pvars>>

\* forMessage(messageAttributes) up to its await: the items of the map whose
\* conversation resolves and whose target is the message; remove starts for
\* every one of them.
forMessage(k) ==
    /\ dForMessage[k].at = "idle"
    /\ \E message \in DeleteItems :
        LET matchingDeletes ==
                {item \in deletes : dOnDelete[item].conversation /\ item = message}
        IN  /\ dForMessage' =
                   [dForMessage EXCEPT ![k] =
                       [at |-> IF matchingDeletes = {} THEN "returned" ELSE "removing",
                        message |-> message,
                        matchingDeletes |-> matchingDeletes]]
            /\ dSyncRemovals' = removeSyncTaskById(dSyncRemovals, matchingDeletes)
    /\ UNCHANGED <<deletes, dOnDelete, dJob>>
    /\ UNCHANGED <<tvars, rvars, svars, jvars, evars, pvars>>

\* The continuation of forMessage: the removes end, matchingDeletes is returned.
forMessageReturns(k) ==
    /\ dForMessage[k].at = "removing"
    /\ deletes' = deletesDelete(deletes, dForMessage[k].matchingDeletes)
    /\ dForMessage' = [dForMessage EXCEPT ![k].at = "returned"]
    /\ UNCHANGED <<dSyncRemovals, dOnDelete, dJob>>
    /\ UNCHANGED <<tvars, rvars, svars, jvars, evars, pvars>>

DeletesInit ==
    /\ TIdle
    /\ RIdle
    /\ SIdle
    /\ JIdle
    /\ OIdle

DeletesNext ==
    \/ \E item \in DeleteItems : onDelete(item)
    \/ \E item \in DeleteItems : onDeleteRemoved(item)
    \/ \E item \in DeleteItems : onDeleteJob(item)
    \/ \E item \in DeleteItems : onDeleteJobRemoved(item)
    \/ \E k \in 1..MaxLookups : forMessage(k)
    \/ \E k \in 1..MaxLookups : forMessageReturns(k)

SpecDeletes == DeletesInit /\ [][DeletesNext]_vars

\* The forMessage calls that returned the item.
HandedOut(item) ==
    {k \in 1..MaxLookups :
        /\ dForMessage[k].at = "returned"
        /\ item \in dForMessage[k].matchingDeletes}

\* The forMessage calls that matched the item, returned or not.
TakenBy(item) ==
    {k \in 1..MaxLookups : item \in dForMessage[k].matchingDeletes}

\* C37: onDelete registers the item under its envelopeId and, when the
\* conversation resolves and nothing throws, returns with its job still on
\* the queue; once onDelete has returned for a missing conversation or a
\* thrown error, and once the job has succeeded, the item is out of the
\* pending map and its sync task has been removed; an item whose job has not
\* succeeded stays in the map until a forMessage call takes it.
C37_PendingBookkeeping ==
    \A item \in DeleteItems :
        /\ (item \in deletes => dOnDelete[item].at # "new")
        /\ (dJob[item] = "queued" => dOnDelete[item].at = "returned")
        /\ (/\ dOnDelete[item].at = "returned"
            /\ (dOnDelete[item].threw \/ ~dOnDelete[item].conversation)
            => item \notin deletes /\ dSyncRemovals[item] >= 1)
        /\ (dJob[item] = "succeeded"
            => item \notin deletes /\ dSyncRemovals[item] >= 1)
        /\ (/\ dJob[item] \in {"queued", "notFound", "rejected"}
            /\ TakenBy(item) = {}
            => item \in deletes /\ dSyncRemovals[item] = 0)

C37_Witness ==
    /\ dJob["e1"] = "notFound"
    /\ "e1" \in deletes
    /\ dJob["e2"] = "succeeded"
    /\ "e2" \notin deletes

\* C38: no item is returned by two forMessage calls, and no item's sync task
\* is removed twice.
C38_HandedOutOnce ==
    \A item \in DeleteItems :
        /\ Cardinality(HandedOut(item)) <= 1
        /\ dSyncRemovals[item] <= 1

\* ---------------------------- ExpiringMessagesDeletionService: the timer
Earlier(a, b) == a.s < b.s \/ (a.s = b.s /\ a.ms < b.ms)

Minus(a, b) ==
    IF a.ms >= b.ms
    THEN Instant(a.s - b.s, a.ms - b.ms)
    ELSE Instant(a.s - b.s - 1, a.ms + 1000 - b.ms)

waitUnclamped(soonestExpiry, now) ==
    LET wait == Minus(soonestExpiry, now)
    IN  IF Earlier(wait, Zero) THEN Zero ELSE wait

\* checkExpiringMessages, the delay: soonestExpiry - Date.now(), 0 when it is
\* in the past, 2147483647 when it is beyond that.
wait(soonestExpiry, now) ==
    LET first == Minus(soonestExpiry, now)
        second == IF Earlier(first, Zero) THEN Zero ELSE first
    IN  IF Earlier(MaxTimeout, second) THEN MaxTimeout ELSE second

\* window.Signal.Data.getSoonestMessageExpiry
getSoonestMessageExpiry(stored) ==
    IF stored = {} THEN None
    ELSE Some(CHOOSE e \in stored : \A other \in stored : ~Earlier(other, e))

\* clearTimeoutIfNecessary(this.timeout)
clearTimeoutIfNecessary(timers, handle) ==
    [h \in 1..MaxTimers |->
        IF handle = Some(h) /\ timers[h].state = "armed"
        THEN [timers[h] EXCEPT !.state = "cleared"]
        ELSE timers[h]]

Armed(timers) == {h \in 1..MaxTimers : timers[h].state = "armed"}

Created(timers) == {h \in 1..MaxTimers : timers[h].state # "unused"}

\* update(): a message with an expiry has been stored and the debounced
\* check is asked for.
update ==
    /\ \E expiry \in Expiries : eMessages' = eMessages \cup {expiry}
    /\ eUpdate' = TRUE
    /\ UNCHANGED <<eNow, eChecks, timeout, eTimers>>
    /\ UNCHANGED <<tvars, rvars, svars, jvars, dvars, pvars>>

\* Date.now() moves on.
TimePasses ==
    /\ \E now \in Nows : Earlier(eNow, now) /\ eNow' = now
    /\ UNCHANGED <<eMessages, eUpdate, eChecks, timeout, eTimers>>
    /\ UNCHANGED <<tvars, rvars, svars, jvars, dvars, pvars>>

\* The debounce ends: checkExpiringMessages starts and awaits
\* getSoonestMessageExpiry.
checkExpiringMessagesStarts ==
    /\ eUpdate
    /\ Len(eChecks) < MaxChecks
    /\ eUpdate' = FALSE
    /\ eChecks' = Append(eChecks, getSoonestMessageExpiry(eMessages))
    /\ UNCHANGED <<eNow, eMessages, timeout, eTimers>>
    /\ UNCHANGED <<tvars, rvars, svars, jvars, dvars, pvars>>

\* checkExpiringMessages after its await: return when nothing expires,
\* otherwise clear this.timeout and arm a timer for the delay.
checkExpiringMessages(i) ==
    /\ i \in 1..Len(eChecks)
    /\ LET soonestExpiry == eChecks[i]
           handle == Cardinality(Created(eTimers)) + 1
       IN  IF soonestExpiry = None
           THEN UNCHANGED <<timeout, eTimers>>
           ELSE /\ handle <= MaxTimers
                /\ eTimers' =
                       [clearTimeoutIfNecessary(eTimers, timeout) EXCEPT ![handle] =
                           [state |-> "armed",
                            delay |-> wait(soonestExpiry[1], eNow),
                            soonestExpiry |-> soonestExpiry,
                            since |-> eNow]]
                /\ timeout' = Some(handle)
    /\ eChecks' = [k \in 1..(Len(eChecks) - 1) |->
                      IF k < i THEN eChecks[k] ELSE eChecks[k + 1]]
    /\ UNCHANGED <<eNow, eMessages, eUpdate>>
    /\ UNCHANGED <<tvars, rvars, svars, jvars, dvars, pvars>>

\* The timer fires: destroyExpiredMessages starts.
timerFires(h) ==
    /\ eTimers[h].state = "armed"
    /\ ~Earlier(Minus(eNow, eTimers[h].since), eTimers[h].delay)
    /\ eTimers' = [eTimers EXCEPT ![h].state = "running"]
    /\ UNCHANGED <<eNow, eMessages, eUpdate, eChecks, timeout>>
    /\ UNCHANGED <<tvars, rvars, svars, jvars, dvars, pvars>>

\* destroyExpiredMessages: the expired messages are removed and another check
\* is scheduled, or an error is caught and the run sleeps.
destroyExpiredMessages(h) ==
    /\ eTimers[h].state = "running"
    /\ \E failed \in BOOLEAN :
        IF failed
        THEN /\ eTimers' = [eTimers EXCEPT ![h].state = "sleeping", ![h].since = eNow]
             /\ UNCHANGED <<eMessages, eUpdate>>
        ELSE /\ eTimers' = [eTimers EXCEPT ![h].state = "done"]
             /\ eMessages' = {e \in eMessages : Earlier(eNow, e)}
             /\ eUpdate' = TRUE
    /\ UNCHANGED <<eNow, eChecks, timeout>>
    /\ UNCHANGED <<tvars, rvars, svars, jvars, dvars, pvars>>

\* destroyExpiredMessages after sleep(30 * SECOND): another check is scheduled.
destroyExpiredMessagesRetries(h) ==
    /\ eTimers[h].state = "sleeping"
    /\ ~Earlier(Minus(eNow, eTimers[h].since), ThirtySeconds)
    /\ eTimers' = [eTimers EXCEPT ![h].state = "done"]
    /\ eUpdate' = TRUE
    /\ UNCHANGED <<eNow, eMessages, eChecks, timeout>>
    /\ UNCHANGED <<tvars, rvars, svars, jvars, dvars, pvars>>

ExpiringInit ==
    /\ TIdle
    /\ RIdle
    /\ SIdle
    /\ JIdle
    /\ OIdle

ExpiringNext ==
    \/ update
    \/ TimePasses
    \/ checkExpiringMessagesStarts
    \/ \E i \in 1..MaxChecks : checkExpiringMessages(i)
    \/ \E h \in 1..MaxTimers : timerFires(h)
    \/ \E h \in 1..MaxTimers : destroyExpiredMessages(h)
    \/ \E h \in 1..MaxTimers : destroyExpiredMessagesRetries(h)

SpecExpiring == ExpiringInit /\ [][ExpiringNext]_vars

\* C39: at most one timer is armed; a step that arms a timer leaves no other
\* timer armed and gives it the time from now to the soonest expiry read, 0
\* when that is past and 2147483647 ms when it is beyond; while every check
\* in flight has found no expiry no timer is armed by a step; and a run of
\* destroyExpiredMessages ends, at once when it succeeded and 30 seconds
\* after its failure otherwise, with another check scheduled.
C39_ExpiryTimer ==
    [][/\ Cardinality(Armed(eTimers')) <= 1
       /\ \A h \in Armed(eTimers') \ Armed(eTimers) :
            LET timer == eTimers'[h]
                until == Minus(timer.soonestExpiry[1], eNow)
            IN  /\ Armed(eTimers') = {h}
                /\ timeout' = Some(h)
                /\ \E i \in 1..Len(eChecks) : eChecks[i] = timer.soonestExpiry
                /\ ~Earlier(timer.delay, Zero)
                /\ ~Earlier(MaxTimeout, timer.delay)
                /\ (until.s < 0 => timer.delay = Zero)
                /\ (until.s >= 0 /\ ~Earlier(MaxTimeout, until) => timer.delay = until)
                /\ (Earlier(MaxTimeout, until) => timer.delay = MaxTimeout)
       /\ ((\A i \in 1..Len(eChecks) : eChecks[i] = None)
            => Armed(eTimers') \subseteq Armed(eTimers))
       /\ \A h \in 1..MaxTimers :
            /\ eTimers[h].state \in {"running", "sleeping"}
            /\ eTimers'[h].state = "done"
            => /\ eUpdate'
               /\ (eTimers[h].state = "sleeping"
                    => ~Earlier(Minus(eNow, eTimers[h].since), ThirtySeconds))
       /\ \A h \in 1..MaxTimers :
            eTimers[h].state = "running" => eTimers'[h].state \in {"running", "sleeping", "done"}
      ]_vars

C39_Witness ==
    /\ \E h \in 1..MaxTimers :
        /\ eTimers[h].state = "cleared"
        /\ eTimers[h].delay = MaxTimeout
        /\ eTimers[h].soonestExpiry = Some(Instant(2147484, 648))
    /\ \E h \in 1..MaxTimers :
        /\ eTimers[h].state = "done"
        /\ eTimers[h].delay = Instant(0, 500)
        /\ eTimers[h].since = Instant(2, 500)
    /\ \E h \in 1..MaxTimers :
        /\ eTimers[h].state = "armed"
        /\ eTimers[h].delay = Zero

\* ------------------------------------------------ CallsList: the peek queue
isGroupOrAdhocCallMode(mode) == mode \in {CallMode.Group, CallMode.Adhoc}

\* maybeEnqueueCallPeek on the pair of refs (queue, args) carried in st.
maybeEnqueueCallPeek(st, item) ==
    IF item.peerId \in Range(st.queue) THEN st
    ELSE IF isGroupOrAdhocCallMode(item.mode)
    THEN [st EXCEPT
             !.args = @ \cup {[peerId |-> item.peerId,
                               callMode |-> item.mode,
                               conversationId |-> item.peerId]},
             !.queue = Append(@, item.peerId)]
    ELSE st

getPeerIdsToPeekTakesAll(queue) == queue

getPeerIdsToPeek(queue) ==
    IF Len(queue) >= PEEK_BATCH_COUNT THEN SubSeq(queue, 1, PEEK_BATCH_COUNT) ELSE queue

getIsInCall(item, isActive, calling) ==
    CASE item.mode = CallMode.Adhoc -> calling.activeCallConversationId = Some(item.peerId)
      [] item.mode = CallMode.Direct -> FALSE
      [] OTHER -> isActive /\ calling.activeCallConversationId = Some(item.peerId)

\* The loop of enqueueCallPeeks from row k on.
RECURSIVE enqueueCallPeeksFrom(_, _, _, _, _, _)
enqueueCallPeeksFrom(callItems, k, isFirstRun, calling, peekedAt, st) ==
    IF k > Len(callItems) THEN st
    ELSE
        LET item == callItems[k]
            isActive == item.peerId \in calling.active
            counted == [maybeEnqueueCallPeek(st, item) EXCEPT !.peekCount = @ + 1]
            next ==
                IF ~isGroupOrAdhocCallMode(item.mode) THEN st
                ELSE IF isActive
                THEN IF /\ calling.activeCallConversationId # None
                        /\ getIsInCall(item, isActive, calling)
                     THEN st
                     ELSE counted
                ELSE IF /\ item.mode = CallMode.Adhoc
                        /\ isFirstRun
                        /\ st.inactiveCallLinksToPeek < INACTIVE_CALL_LINKS_TO_PEEK
                        /\ item.recent
                THEN IF item.peerId \in peekedAt /\ calling.peekedRecently
                     THEN st
                     ELSE [counted EXCEPT !.inactiveCallLinksToPeek = @ + 1]
                ELSE st
        IN  enqueueCallPeeksFrom(callItems, k + 1, isFirstRun, calling, peekedAt, next)

\* doCallPeeks: the peerIds taken, in order, are peeked when they have
\* arguments, and leave the queue and the argument map.
doCallPeeks(refs, peerIds) ==
    LET taken == Range(peerIds)
        peeked == SelectSeq(peerIds, LAMBDA p : \E a \in refs.args : a.peerId = p)
    IN  [refs EXCEPT
            !.queue = SelectSeq(@, LAMBDA p : p \notin taken),
            !.args = {a \in @ : a.peerId \notin taken},
            !.peekedAt = @ \cup Range(peeked),
            !.peeked = @ \o peeked]

\* enqueueCallPeeks after its loop, on all the refs.
enqueueCallPeeksEnds(refs, st) ==
    LET enqueued == [refs EXCEPT !.queue = st.queue, !.args = st.args]
    IN  IF st.peekCount = 0 THEN enqueued
        ELSE IF refs.timer # None THEN enqueued
        ELSE doCallPeeks([enqueued EXCEPT !.timer = Some(refs.intervals + 1),
                                          !.intervals = @ + 1],
                         getPeerIdsToPeek(st.queue))

enqueueCallPeeks(callItems, isFirstRun, calling, refs) ==
    enqueueCallPeeksEnds(refs,
        enqueueCallPeeksFrom(callItems, 1, isFirstRun, calling, refs.peekedAt,
            [queue |-> refs.queue, args |-> refs.args,
             peekCount |-> 0, inactiveCallLinksToPeek |-> 0]))

PeekRefs ==
    [queue |-> peekQueue, args |-> peekQueueArgs, peekedAt |-> inactiveCallLinksPeekedAt,
     timer |-> peekQueueTimer, intervals |-> pIntervals, peeked |-> <<>>]

SetPeekRefs(refs) ==
    /\ peekQueue' = refs.queue
    /\ peekQueueArgs' = refs.args
    /\ inactiveCallLinksPeekedAt' = refs.peekedAt
    /\ peekQueueTimer' = refs.timer
    /\ pIntervals' = refs.intervals
    /\ pPeeked' = refs.peeked

\* The search effect, once its results are in and it was not aborted.
search ==
    /\ pMounted
    /\ \E items \in Pages, calling \in CallingStates :
        /\ SetPeekRefs(enqueueCallPeeks(items, TRUE, calling, PeekRefs))
        /\ searchStateItems' = Some(items)
    /\ UNCHANGED pMounted
    /\ UNCHANGED <<tvars, rvars, svars, jvars, dvars, evars>>

\* The interval's callback.
peekQueueInterval ==
    /\ pIntervals > 0
    /\ \E calling \in CallingStates :
        LET enqueued ==
                IF searchStateItems # None
                THEN enqueueCallPeeks(searchStateItems[1], FALSE, calling, PeekRefs)
                ELSE PeekRefs
        IN  SetPeekRefs(IF Len(enqueued.queue) > 0
                        THEN doCallPeeks(enqueued, getPeerIdsToPeek(enqueued.queue))
                        ELSE enqueued)
    /\ UNCHANGED <<searchStateItems, pMounted>>
    /\ UNCHANGED <<tvars, rvars, svars, jvars, dvars, evars>>

\* The cleanup of the component's effects.
unmount ==
    /\ pMounted
    /\ pMounted' = FALSE
    /\ IF peekQueueTimer # None
       THEN peekQueueTimer' = None /\ pIntervals' = pIntervals - 1
       ELSE UNCHANGED <<peekQueueTimer, pIntervals>>
    /\ pPeeked' = <<>>
    /\ UNCHANGED <<peekQueue, peekQueueArgs, inactiveCallLinksPeekedAt, searchStateItems>>
    /\ UNCHANGED <<tvars, rvars, svars, jvars, dvars, evars>>

PeeksInit ==
    /\ TIdle
    /\ RIdle
    /\ SIdle
    /\ JIdle
    /\ OIdle

PeeksNext == search \/ peekQueueInterval \/ unmount

SpecPeeks == PeeksInit /\ [][PeeksNext]_vars

IsPrefix(s, t) == Len(s) <= Len(t) /\ SubSeq(t, 1, Len(s)) = s

NoDuplicates(s) == Cardinality(Range(s)) = Len(s)

\* C40: the queue holds no peerId twice and the argument map holds the
\* peerIds of the queue; the peerIds a step peeks, followed by the queue it
\* leaves, are the queue before the step followed by what the step enqueued,
\* so that the oldest are peeked first; a step peeks at most 10 peerIds, each
\* once, leaves none of them in the queue, and leaves peerIds behind only
\* when it peeked 10 or only enqueued; there is never more than one interval.
C40_PeekQueue ==
    [][/\ NoDuplicates(peekQueue')
       /\ {a.peerId : a \in peekQueueArgs'} = Range(peekQueue')
       /\ Cardinality(peekQueueArgs') = Len(peekQueue')
       /\ IsPrefix(peekQueue, pPeeked' \o peekQueue')
       /\ NoDuplicates(pPeeked' \o peekQueue')
       /\ Len(pPeeked') <= 10
       /\ (pPeeked' # <<>> /\ peekQueue' # <<>> => Len(pPeeked') = 10)
       /\ Range(pPeeked') \subseteq inactiveCallLinksPeekedAt'
       /\ pIntervals' <= 1
       /\ (peekQueueTimer' = None <=> pIntervals' = 0)
      ]_vars

C40_Witness ==
    /\ Len(pPeeked) = 10
    /\ Len(peekQueue) >= 1
    /\ pIntervals = 1
    /\ 1 \in Range(pPeeked)

====
